---- MODULE Spec2Model ----
(***************************************************************************)
(* Model of the HeadHunter API client of hh_bot (src/hh_client.py): the    *)
(* retrying request layer (_request_with_retry), the token renewal         *)
(* (refresh_access_token), the apply call (apply_to_vacancy) and the two   *)
(* reads (search_vacancies, get_vacancy_details); and of its store         *)
(* (src/storage/database.py).                                              *)
(*                                                                         *)
(* The client is synchronous: one public method runs at a time.  Each      *)
(* iteration of the retry loop is one step, its HTTP outcome chosen by the *)
(* provider (the environment).                                             *)
(***************************************************************************)
EXTENDS Integers, Sequences, FiniteSets, Bags, TLC

VARIABLES
    access_token,           \* self.access_token
    refresh_token,          \* self.refresh_token
    session_headers,        \* self.session.headers, as a set of <<name, value>>
    HH_OAUTH_CLIENT_ID,     \* config.HH_OAUTH_CLIENT_ID
    HH_OAUTH_CLIENT_SECRET, \* config.HH_OAUTH_CLIENT_SECRET
    response_type,          \* the class of the objects session.request returns
    op,                     \* the public method running (or the last one run)
    pc,                     \* position of the running method
    attempt,                \* loop variable of _request_with_retry
    last_exception,         \* local of _request_with_retry
    req_result,             \* what _request_with_retry returned or raised
    hist,                   \* outcomes of session.request in this request
    sleeps,                 \* arguments of time.sleep in this request
    apply_stage,            \* which request of apply_to_vacancy is running
    apply_result,           \* the dict apply_to_vacancy returned
    resume_id,              \* the resume_id argument of apply_to_vacancy
    search_result,          \* what search_vacancies returned
    details_result,         \* what get_vacancy_details returned
    requests_made,          \* _request_with_retry invocations of this method
    refresh_log,            \* the refresh_access_token invocation of this method
    users,                  \* table users: the chat_ids with a row
    preferences,            \* table preferences: chat_id -> row
    fresh,                  \* chat_ids whose preferences row was never updated
    sent_vacancies,         \* table of the vacancies sent to a chat
    processed_vacancies,    \* table processed_vacancies
    sent_calls,             \* the pairs mark_vacancy_sent was called with
    applications,           \* table applications: its rows in the order of id
    db_result,              \* what the last store method returned
    monitoring_state,       \* table monitoring_state: chat_id -> row
    HH_RESUME_ID,           \* config.HH_RESUME_ID
    current_vacancies,      \* self.current_vacancies: the <<chat_id, id>> it holds
    cycles,                 \* the running instances of the monitoring job
    last_hh_request,        \* the age of self.last_hh_request
    provider,               \* the calls of the provider's API made so far
    apply_requests,         \* the apply requests made, a bag of <<chat_id, id>>
    dispatched,             \* the <<chat_id, id>> the monitoring job dispatched
    buttons,                \* the <<chat_id, id>> of the cards that show buttons
    delivered,              \* the <<chat_id, id>> whose notification was sent
    user_data,              \* context.user_data of each chat: its 'waiting_for'
    pending,                \* the handlers the event loop has ready to run
    running,                \* the handler that holds the event loop's thread
    in_flight               \* the handlers whose provider call has not ended

clientVars == <<access_token, refresh_token, session_headers, HH_OAUTH_CLIENT_ID,
          HH_OAUTH_CLIENT_SECRET, response_type, op, pc, attempt, last_exception, req_result,
          hist, sleeps, apply_stage, apply_result, resume_id, search_result,
          details_result, requests_made, refresh_log>>

storeVars == <<users, preferences, fresh, sent_vacancies, processed_vacancies,
               sent_calls, applications, db_result>>

botVars == <<monitoring_state, HH_RESUME_ID, current_vacancies, cycles,
             last_hh_request, provider, apply_requests, dispatched, buttons,
             delivered>>

loopVars == <<user_data, pending, running, in_flight>>

vars == <<clientVars, storeVars, botVars, loopVars>>

tokenVars == <<access_token, refresh_token, session_headers>>
configVars == <<HH_OAUTH_CLIENT_ID, HH_OAUTH_CLIENT_SECRET, response_type>>
requestVars == <<attempt, last_exception, req_result, hist, sleeps>>
resultVars == <<apply_result, resume_id, search_result, details_result>>

(***************************************************************************)
(* Program constants and bounds.                                           *)
(***************************************************************************)
MAX_RETRIES == 3

RETRY_BACKOFF_BASE == 2

\* Largest number of seconds a numeric Retry-After header carries.
MaxRetryAfter == 2

(***************************************************************************)
(* Python values.                                                          *)
(***************************************************************************)
\* Python's None, for the string-valued fields.
None == "<None>"

\* bool(v) of an optional string.
\* Truthy testing for None only.
Truthy_NoneOnly(v) == v /= None

Truthy(v) == v /= None /\ v /= ""

\* a or b
OrElse(a, b) == IF Truthy(a) THEN a ELSE b

\* The text an f-string puts for {v}.
Fmt(v) == IF v = None THEN "None" ELSE v

CHARS_DIGITS == <<"0", "1", "2", "3", "4", "5", "6", "7", "8", "9">>

\* str(n) for n >= 0, as a sequence of characters.
RECURSIVE Str(_)
Str(n) ==
    IF n < 10 THEN <<CHARS_DIGITS[n + 1]>>
    ELSE Str(n \div 10) \o <<CHARS_DIGITS[(n % 10) + 1]>>

IsDigit(c) == \E i \in 1..10 : CHARS_DIGITS[i] = c

DigitValue(c) == (CHOOSE i \in 1..10 : CHARS_DIGITS[i] = c) - 1

RECURSIVE DigitsValue(_)
DigitsValue(s) ==
    IF s = <<>> THEN 0
    ELSE 10 * DigitsValue(SubSeq(s, 1, Len(s) - 1)) + DigitValue(s[Len(s)])

AllDigits(s) == s /= <<>> /\ \A i \in 1..Len(s) : IsDigit(s[i])

\* int(s) of a header string: [ok, v]; ok = FALSE is the ValueError.
ParseInt(s) ==
    IF AllDigits(s) THEN [ok |-> TRUE, v |-> DigitsValue(s)]
    ELSE IF s /= <<>> /\ s[1] = "-" /\ AllDigits(Tail(s))
         THEN [ok |-> TRUE, v |-> 0 - DigitsValue(Tail(s))]
    ELSE [ok |-> FALSE, v |-> 0]

(***************************************************************************)
(* What the provider can answer to one session.request.                    *)
(***************************************************************************)
Statuses == {200, 201, 400, 401, 403, 404, 409, 429, 500, 503}

\* An HTTP-date, the other form RFC 9110 allows for Retry-After.
HTTP_DATE == <<"W", "e", "d">>

\* The Location of a created negotiation.
LOCATION == <<"/", "n", "1">>

RetryAfterHeaders ==
    {{}} \cup {{<<"Retry-After", Str(n)>>} : n \in 0..MaxRetryAfter}
         \cup {{<<"Retry-After", <<"-", "1">>>>}, {<<"Retry-After", HTTP_DATE>>}}

\* A body these methods do not read, or that is no JSON.
NoBody == [valid |-> FALSE, has_items |-> FALSE, items |-> <<>>]

\* A JSON object with the key 'items'.
ItemsBody(items) == [valid |-> TRUE, has_items |-> TRUE, items |-> items]

\* A JSON object without the key 'items'.
ObjectBody == [valid |-> TRUE, has_items |-> FALSE, items |-> <<>>]

\* The bodies of a 200: no JSON, an object without items, and two lists of
\* vacancy ids that differ in their order only.
Bodies200 ==
    {NoBody, ObjectBody, ItemsBody(<<"v1", "v2">>), ItemsBody(<<"v2", "v1">>)}

Response(status, headers) ==
    [kind |-> "response", status |-> status, headers |-> headers, body |-> NoBody]

ResponseWithBody(status, body) ==
    [kind |-> "response", status |-> status, headers |-> {}, body |-> body]

Raised(exc) == [kind |-> exc, status |-> 0, headers |-> {}, body |-> NoBody]

TransportErrors == {"Timeout", "ConnectionError"}

Outcomes ==
    {Response(s, {}) : s \in Statuses \ {200, 201, 429}}
        \cup {ResponseWithBody(200, b) : b \in Bodies200}
        \cup {Response(201, {<<"Location", LOCATION>>})}
        \cup {Response(429, h) : h \in RetryAfterHeaders}
        \cup {Raised(e) : e \in TransportErrors}

HasHeader(headers, name) == \E h \in headers : h[1] = name

HeaderValue(headers, name) == (CHOOSE h \in headers : h[1] = name)[2]

(***************************************************************************)
(* _request_with_retry                                                     *)
(***************************************************************************)
NoException == [exc |-> "None", n |-> 0]

NoResult == [kind |-> "pending", status |-> 0, exc |-> "None", n |-> 0]

Returned(o, n) == [kind |-> "response", status |-> o.status, exc |-> "None", n |-> n]

ReturnedNone == [kind |-> "None", status |-> 0, exc |-> "None", n |-> 0]

RaisedResult(e) == [kind |-> "raise", status |-> 0, exc |-> e.exc, n |-> e.n]

\* Backoff with the exponent counted down: the delays shrink.
Backoff_CountedDown(a) == RETRY_BACKOFF_BASE ^ (MAX_RETRIES - a)

\* RETRY_BACKOFF_BASE ** (attempt + 1)
Backoff(a) == RETRY_BACKOFF_BASE ^ (a + 1)

\* int(response.headers.get('Retry-After', RETRY_BACKOFF_BASE ** (attempt + 1)))
RetryAfter(o, a) ==
    IF HasHeader(o.headers, "Retry-After")
    THEN ParseInt(HeaderValue(o.headers, "Retry-After"))
    ELSE [ok |-> TRUE, v |-> Backoff(a)]

\* IsServerError taking every error status, 4xx included, for a fault.
IsServerError_From400(o) == o.status >= 400

\* if response.status_code >= 500
IsServerError(o) == o.status >= 500

\* HasNextAttempt without the test for the last attempt.
HasNextAttempt_Always(a) == a < MAX_RETRIES

\* if attempt < self.MAX_RETRIES - 1
HasNextAttempt(a) == a < MAX_RETRIES - 1

\* The for loop goes on to iteration a + 1, or is over.
Continue(a) ==
    /\ attempt' = a + 1
    /\ pc' = IF a + 1 < MAX_RETRIES THEN "loop" ELSE "loop_end"

Sleep(seconds) == sleeps' = Append(sleeps, seconds)

\* return response / raise: the request is over, its caller goes on.
Leave(result) ==
    /\ req_result' = result
    /\ pc' = "req_out"
    /\ attempt' = attempt

\* On429 retrying without using up an attempt.
On429_NotCounted(o) ==
    /\ Sleep(Backoff(attempt))
    /\ pc' = "loop"
    /\ UNCHANGED <<attempt, req_result, last_exception>>

\* The 429 branch: sleep Retry-After seconds and continue, on every attempt.
\* int() of a header that is no integer, and time.sleep of a negative
\* number, raise ValueError, which no except clause of the loop catches.
On429(o) ==
    LET ra == RetryAfter(o, attempt) IN
    IF ra.ok /\ ra.v >= 0
    THEN /\ Sleep(ra.v)
         /\ Continue(attempt)
         /\ UNCHANGED <<req_result, last_exception>>
    ELSE /\ Leave(RaisedResult([exc |-> "ValueError", n |-> attempt + 1]))
         /\ UNCHANGED <<sleeps, last_exception>>

\* The 5xx branch: sleep and continue unless this is the last attempt.
On5xx(o) ==
    IF HasNextAttempt(attempt)
    THEN /\ Sleep(Backoff(attempt))
         /\ Continue(attempt)
         /\ UNCHANGED <<req_result, last_exception>>
    ELSE /\ Leave(Returned(o, attempt + 1))
         /\ UNCHANGED <<sleeps, last_exception>>

\* Any other status: return response, at once.
OnOtherStatus(o) ==
    /\ Leave(Returned(o, attempt + 1))
    /\ UNCHANGED <<sleeps, last_exception>>

\* OnTransportError keeping the first exception instead of the last.
OnTransportError_KeepsFirst(o) ==
    /\ last_exception' = IF last_exception = NoException
                          THEN [exc |-> o.kind, n |-> attempt + 1]
                          ELSE last_exception
    /\ Continue(attempt)
    /\ IF HasNextAttempt(attempt) THEN Sleep(Backoff(attempt)) ELSE UNCHANGED sleeps
    /\ UNCHANGED req_result

\* The two except clauses: remember the exception, sleep and continue unless
\* this is the last attempt, where the loop just ends.
OnTransportError(o) ==
    /\ last_exception' = [exc |-> o.kind, n |-> attempt + 1]
    /\ Continue(attempt)
    /\ IF HasNextAttempt(attempt) THEN Sleep(Backoff(attempt)) ELSE UNCHANGED sleeps
    /\ UNCHANGED req_result

\* One iteration of the for loop, the provider answering o.
Attempt(o) ==
    /\ pc = "loop"
    /\ attempt < MAX_RETRIES
    /\ hist' = Append(hist, o)
    /\ IF o.kind = "response"
       THEN IF o.status = 429 THEN On429(o)
            ELSE IF IsServerError(o) THEN On5xx(o)
            ELSE OnOtherStatus(o)
       ELSE OnTransportError(o)
    /\ UNCHANGED <<tokenVars, configVars, op, apply_stage, resultVars,
                   requests_made, refresh_log>>
    /\ UNCHANGED <<storeVars, botVars, loopVars>>

\* After the loop: raise last_exception if there is one, else return None.
LoopEnd ==
    /\ pc = "loop_end"
    /\ req_result' = IF last_exception /= NoException
                     THEN RaisedResult(last_exception)
                     ELSE ReturnedNone
    /\ pc' = "req_out"
    /\ UNCHANGED <<tokenVars, configVars, op, attempt, last_exception, hist,
                   sleeps, apply_stage, resultVars, requests_made, refresh_log>>
    /\ UNCHANGED <<storeVars, botVars, loopVars>>

(***************************************************************************)
(* refresh_access_token                                                    *)
(***************************************************************************)
\* self.session.headers.update({name: value})
HeadersUpdate(headers, name, value) ==
    {h \in headers : h[1] /= name} \cup {<<name, value>>}

\* f'Bearer {token}'
Bearer(token) == "Bearer " \o Fmt(token)

\* What the token endpoint can answer to the requests.post of a renewal: a
\* 200 with a JSON object (a key it omits reads as None), a 200 whose body
\* is no JSON, another status, or a transport error.
TokenAnswers ==
    {[kind |-> "response", status |-> 200, json |-> TRUE, access_token |-> a,
      refresh_token |-> r] : a \in {None, "a1"}, r \in {None, "r1"}}
        \cup {[kind |-> "response", status |-> s, json |-> FALSE,
               access_token |-> None, refresh_token |-> None] : s \in {200, 400}}
        \cup {[kind |-> e, status |-> 0, json |-> FALSE,
               access_token |-> None, refresh_token |-> None] : e \in TransportErrors}

\* RefreshFailed dropping the access token the renewal could not replace.
RefreshFailed_DropsToken(calls) ==
    [ok |-> FALSE, calls |-> calls, access_token |-> None,
     refresh_token |-> refresh_token, session_headers |-> session_headers]

RefreshFailed(calls) ==
    [ok |-> FALSE, calls |-> calls, access_token |-> access_token,
     refresh_token |-> refresh_token, session_headers |-> session_headers]

\* RefreshSuccess leaving the session's Authorization header as it was.
RefreshSuccess_StaleHeader(t) ==
    [ok |-> TRUE, calls |-> 1,
     access_token |-> t.access_token,
     refresh_token |-> t.refresh_token,
     session_headers |-> session_headers]

\* The 200 branch: token and refresh token are taken from the JSON object
\* and the session's Authorization header is set from the new token.
RefreshSuccess(t) ==
    [ok |-> TRUE, calls |-> 1,
     access_token |-> t.access_token,
     refresh_token |-> t.refresh_token,
     session_headers |->
         HeadersUpdate(session_headers, "Authorization", Bearer(t.access_token))]

\* refresh_access_token, the token endpoint answering t: what it returns
\* (ok), the requests.post calls it made, and the client's fields after it.
RefreshAccessToken(t) ==
    IF ~Truthy(refresh_token) THEN RefreshFailed(0)
    ELSE IF ~Truthy(HH_OAUTH_CLIENT_ID) \/ ~Truthy(HH_OAUTH_CLIENT_SECRET)
         THEN RefreshFailed(0)
    ELSE IF t.kind /= "response" THEN RefreshFailed(1)
    ELSE IF t.status = 200
         THEN IF ~t.json THEN RefreshFailed(1) ELSE RefreshSuccess(t)
    ELSE RefreshFailed(1)

\* No requests.post was made.
NoAnswer ==
    [kind |-> "none", status |-> 0, json |-> FALSE,
     access_token |-> None, refresh_token |-> None]

NoRefresh ==
    [called |-> FALSE, ok |-> FALSE, calls |-> 0, answer |-> NoAnswer,
     before |-> <<None, None, {}>>, count |-> 0]

\* The client takes the fields refresh_access_token left; the call is
\* recorded with the fields it found and the answer it got, if it asked,
\* as one more renewal after the n this method made before.
DoRefresh(r, t, n) ==
    /\ access_token' = r.access_token
    /\ refresh_token' = r.refresh_token
    /\ session_headers' = r.session_headers
    /\ refresh_log' = [called |-> TRUE, ok |-> r.ok, calls |-> r.calls,
                       answer |-> IF r.calls > 0 THEN t ELSE NoAnswer,
                       before |-> <<access_token, refresh_token, session_headers>>,
                       count |-> n + 1]

(***************************************************************************)
(* apply_to_vacancy                                                        *)
(***************************************************************************)
NoApplyResult ==
    [success |-> FALSE, message |-> "pending", code |-> 0,
     has_url |-> FALSE, negotiation_url |-> <<>>]

Result(success, message) ==
    [success |-> success, message |-> message, code |-> 0,
     has_url |-> FALSE, negotiation_url |-> <<>>]

\* response.headers.get('Location', '')
LocationOf(o) ==
    IF HasHeader(o.headers, "Location") THEN HeaderValue(o.headers, "Location")
    ELSE <<>>

ResultWithUrl(o) ==
    [success |-> TRUE, message |-> "sent", code |-> 0,
     has_url |-> TRUE, negotiation_url |-> LocationOf(o)]

\* The three except clauses of apply_to_vacancy.
ExceptResult(res) ==
    IF res.exc = "Timeout" THEN Result(FALSE, "timeout")
    ELSE IF res.exc = "ConnectionError" THEN Result(FALSE, "connection_error")
    ELSE Result(FALSE, "unexpected_error")

\* The response the request returned is the last one it received.
LastOutcome == hist[Len(hist)]

\* What session.request returns: a requests.Response from the
\* requests.Session the constructor makes, a Mock in the repository's tests.
ResponseTypes == {"Response", "Mock"}

\* bool(response) for what _request_with_retry returned: None is false; a
\* requests.Response is true exactly when its status is below 400
\* (Response.__bool__ is Response.ok); a Mock is true.
ResponseTruthy(res) ==
    /\ res.kind = "response"
    /\ response_type = "Response" => res.status < 400

\* 'if not response' and the if/elif chain on the first response, the 401
\* branch aside.
ClassifyFirst(res) ==
    IF ~ResponseTruthy(res) THEN Result(FALSE, "failed_after_retries")
    ELSE IF res.status = 201 THEN ResultWithUrl(LastOutcome)
    ELSE IF res.status = 200 THEN Result(TRUE, "sent")
    ELSE IF res.status = 409 THEN Result(TRUE, "already_applied")
    ELSE IF res.status = 403 THEN Result(FALSE, "access_error")
    ELSE IF res.status = 400 THEN Result(FALSE, "bad_request")
    ELSE IF res.status = 429 THEN Result(FALSE, "rate_limit")
    ELSE [Result(FALSE, "error_code") EXCEPT !.code = res.status]

\* The classification of the response to the retry after a renewal.
ClassifyRetry(res) ==
    IF ResponseTruthy(res) /\ res.status \in {200, 201}
    THEN ResultWithUrl(LastOutcome)
    ELSE IF ResponseTruthy(res) /\ res.status = 409
         THEN Result(TRUE, "already_applied")
    ELSE Result(FALSE, "token_expired")

\* apply_to_vacancy returns.
ApplyReturn(result) ==
    /\ apply_result' = result
    /\ apply_stage' = "none"
    /\ pc' = "idle"

NoSearchResult == [kind |-> "pending", items |-> <<>>]

NoDetailsResult == [kind |-> "pending", body |-> NoBody]

\* No method is running.
Idle == pc = "idle" \/ (op = "request" /\ pc = "req_out")

FreshRequestVars ==
    /\ attempt' = 0
    /\ last_exception' = NoException
    /\ req_result' = NoResult
    /\ hist' = <<>>
    /\ sleeps' = <<>>

\* apply_to_vacancy up to its first request: the two configuration checks.
ApplyToVacancyBegin(rid) ==
    /\ op' = "apply"
    /\ resume_id' = rid
    /\ search_result' = NoSearchResult
    /\ details_result' = NoDetailsResult
    /\ refresh_log' = NoRefresh
    /\ IF ~Truthy(access_token)
       THEN /\ ApplyReturn(Result(FALSE, "no_token"))
            /\ FreshRequestVars
            /\ requests_made' = 0
       ELSE IF ~Truthy(rid)
            THEN /\ ApplyReturn(Result(FALSE, "no_resume"))
                 /\ FreshRequestVars
                 /\ requests_made' = 0
       ELSE /\ requests_made' = 1
            /\ FreshRequestVars
            /\ pc' = "loop"
            /\ apply_stage' = "first"
            /\ apply_result' = NoApplyResult
    /\ UNCHANGED <<tokenVars, configVars>>

\* apply_to_vacancy called by itself, no method running.
CallApplyToVacancy(rid) ==
    /\ Idle
    /\ ApplyToVacancyBegin(rid)
    /\ UNCHANGED <<storeVars, botVars, loopVars>>

\* apply_to_vacancy after its first request: the classification, and on 401
\* the renewal (the token endpoint answering t) and the start of the retry.
ApplyAfterFirst(t) ==
    /\ op = "apply" /\ pc = "req_out" /\ apply_stage = "first"
    /\ IF req_result.kind = "raise"
       THEN /\ ApplyReturn(ExceptResult(req_result))
            /\ UNCHANGED <<tokenVars, requestVars, requests_made, refresh_log>>
       ELSE IF ResponseTruthy(req_result) /\ req_result.status = 401
       THEN LET r == RefreshAccessToken(t) IN
            /\ DoRefresh(r, t, refresh_log.count)
            /\ IF r.ok
               THEN /\ FreshRequestVars
                    /\ requests_made' = requests_made + 1
                    /\ pc' = "loop"
                    /\ apply_stage' = "retry"
                    /\ UNCHANGED apply_result
               ELSE /\ ApplyReturn(Result(FALSE, "token_expired"))
                    /\ UNCHANGED <<requestVars, requests_made>>
       ELSE /\ ApplyReturn(ClassifyFirst(req_result))
            /\ UNCHANGED <<tokenVars, requestVars, requests_made, refresh_log>>
    /\ UNCHANGED <<configVars, op, resume_id, search_result, details_result>>
    /\ UNCHANGED <<storeVars, botVars, loopVars>>

\* ApplyAfterRetry renewing the token and retrying again on another 401.
ApplyAfterRetry_RenewsAgain ==
    /\ op = "apply" /\ pc = "req_out" /\ apply_stage = "retry"
    /\ IF ResponseTruthy(req_result) /\ req_result.status = 401
       THEN \E t \in TokenAnswers :
                LET r == RefreshAccessToken(t) IN
                /\ DoRefresh(r, t, refresh_log.count)
                /\ IF r.ok
                   THEN /\ FreshRequestVars
                        /\ requests_made' = requests_made + 1
                        /\ pc' = "loop"
                        /\ UNCHANGED <<apply_stage, apply_result>>
                   ELSE /\ ApplyReturn(Result(FALSE, "token_expired"))
                        /\ UNCHANGED <<requestVars, requests_made>>
       ELSE /\ ApplyReturn(IF req_result.kind = "raise"
                           THEN ExceptResult(req_result)
                           ELSE ClassifyRetry(req_result))
            /\ UNCHANGED <<tokenVars, requestVars, requests_made, refresh_log>>
    /\ UNCHANGED <<configVars, op, resume_id, search_result, details_result>>
    /\ UNCHANGED <<storeVars, botVars, loopVars>>

\* apply_to_vacancy after the retry.
ApplyAfterRetry ==
    /\ op = "apply" /\ pc = "req_out" /\ apply_stage = "retry"
    /\ ApplyReturn(IF req_result.kind = "raise" THEN ExceptResult(req_result)
                   ELSE ClassifyRetry(req_result))
    /\ UNCHANGED <<tokenVars, configVars, op, requestVars, requests_made,
                   refresh_log, resume_id, search_result, details_result>>
    /\ UNCHANGED <<storeVars, botVars, loopVars>>

(***************************************************************************)
(* search_vacancies and get_vacancy_details                                *)
(***************************************************************************)
\* A public method other than apply_to_vacancy starts: nothing is left of
\* the method before it.
FreshMethodVars ==
    /\ refresh_log' = NoRefresh
    /\ apply_stage' = "none"
    /\ apply_result' = NoApplyResult
    /\ resume_id' = None
    /\ search_result' = NoSearchResult
    /\ details_result' = NoDetailsResult

\* SearchResult without the except clauses: what the request raised leaves
\* search_vacancies.
SearchResult_Unguarded(res) ==
    IF res.kind = "raise" THEN [kind |-> "raise", items |-> <<>>]
    ELSE IF ResponseTruthy(res) /\ res.status = 200 /\ LastOutcome.body.valid
    THEN [kind |-> "list",
          items |-> IF LastOutcome.body.has_items THEN LastOutcome.body.items
                    ELSE <<>>]
    ELSE [kind |-> "list", items |-> <<>>]

\* search_vacancies after its request: data.get('items', []) of a 200, an
\* empty list for any other response, for no response, and in each of the
\* three except clauses (response.json() of a body that is no JSON raises).
SearchResult(res) ==
    IF ResponseTruthy(res) /\ res.status = 200 /\ LastOutcome.body.valid
    THEN [kind |-> "list",
          items |-> IF LastOutcome.body.has_items THEN LastOutcome.body.items
                    ELSE <<>>]
    ELSE [kind |-> "list", items |-> <<>>]

\* get_vacancy_details after its request: response.json() of a 200, None
\* for any other response, for no response, and in each except clause.
DetailsResult(res) ==
    IF ResponseTruthy(res) /\ res.status = 200 /\ LastOutcome.body.valid
    THEN [kind |-> "dict", body |-> LastOutcome.body]
    ELSE [kind |-> "None", body |-> NoBody]

\* search_vacancies up to its request.
SearchVacanciesBegin ==
    /\ op' = "search"
    /\ FreshRequestVars
    /\ FreshMethodVars
    /\ pc' = "loop"
    /\ requests_made' = 1
    /\ UNCHANGED <<tokenVars, configVars>>

\* search_vacancies called by itself, no method running.
CallSearchVacancies ==
    /\ Idle
    /\ SearchVacanciesBegin
    /\ UNCHANGED <<storeVars, botVars, loopVars>>

SearchReturn ==
    /\ op = "search" /\ pc = "req_out"
    /\ search_result' = SearchResult(req_result)
    /\ pc' = "idle"
    /\ UNCHANGED <<tokenVars, configVars, op, requestVars, requests_made,
                   refresh_log, apply_stage, apply_result, resume_id,
                   details_result>>
    /\ UNCHANGED <<storeVars, botVars, loopVars>>

\* get_vacancy_details up to its request.
GetVacancyDetailsBegin ==
    /\ op' = "details"
    /\ FreshRequestVars
    /\ FreshMethodVars
    /\ pc' = "loop"
    /\ requests_made' = 1
    /\ UNCHANGED <<tokenVars, configVars>>

\* get_vacancy_details called by itself, no method running.
CallGetVacancyDetails ==
    /\ Idle
    /\ GetVacancyDetailsBegin
    /\ UNCHANGED <<storeVars, botVars, loopVars>>

DetailsReturn ==
    /\ op = "details" /\ pc = "req_out"
    /\ details_result' = DetailsResult(req_result)
    /\ pc' = "idle"
    /\ UNCHANGED <<tokenVars, configVars, op, requestVars, requests_made,
                   refresh_log, apply_stage, apply_result, resume_id,
                   search_result>>
    /\ UNCHANGED <<storeVars, botVars, loopVars>>

(***************************************************************************)
(* Direct calls of the other two methods.                                  *)
(***************************************************************************)
CallRequestWithRetry ==
    /\ Idle
    /\ op' = "request"
    /\ FreshRequestVars
    /\ pc' = "loop"
    /\ requests_made' = 1
    /\ FreshMethodVars
    /\ UNCHANGED <<tokenVars, configVars>>
    /\ UNCHANGED <<storeVars, botVars, loopVars>>

CallRefreshAccessToken(t) ==
    /\ Idle
    /\ op' = "refresh"
    /\ DoRefresh(RefreshAccessToken(t), t, 0)
    /\ FreshRequestVars
    /\ pc' = "idle"
    /\ requests_made' = 0
    /\ apply_stage' = "none"
    /\ apply_result' = NoApplyResult
    /\ resume_id' = None
    /\ search_result' = NoSearchResult
    /\ details_result' = NoDetailsResult
    /\ UNCHANGED configVars
    /\ UNCHANGED <<storeVars, botVars, loopVars>>

(***************************************************************************)
(* The store (storage/database.py): users, preferences and the two         *)
(* (chat_id, vacancy_id) membership tables.  Every method runs in a        *)
(* transaction of its own (get_connection): committed when the method      *)
(* ends, rolled back when it raises.                                       *)
(***************************************************************************)
MaxChatId == 2

ChatIds == 1..MaxChatId

VacancyIds == {"v1", "v2"}

\* Python's False and True, which are the integers 0 and 1 in a comparison
\* and in an SQLite column.
PyFalse == 0

PyTrue == 1

\* The value of CURRENT_TIMESTAMP: the clock is not modelled.
CURRENT_TIMESTAMP == "CURRENT_TIMESTAMP"

NoDbResult == [method |-> "none"]

\* The method called with args returned value; raised tells that it raised
\* instead.
DbResult(method, args, raised, value) ==
    [method |-> method, args |-> args, raised |-> raised, value |-> value]

\* What a method returns: None, a bool, the row of a user (its chat_id),
\* a dict of preferences.
NoValue == [none |-> TRUE]

ReturnedBool(b) == [bool |-> b]

ReturnedUser(chat_id) == [user |-> chat_id]

ReturnedInt(n) == [int |-> n]

ReturnedDict(d) == [dict |-> d]

\* A TEXT column holding NULL, and one holding the characters of text.
NULL == [null |-> TRUE, text |-> <<>>]

Text(text) == [null |-> FALSE, text |-> text]

(***************************************************************************)
(* json.dumps and json.loads on lists of strings.  A string is a sequence  *)
(* of characters, and so is the text stored in a column.                   *)
(***************************************************************************)
QUOTE == "\""

BACKSLASH == "\\"

RECURSIVE JsonEscape(_)
\* The characters of a string between its quotes: quote and backslash are
\* written with a backslash before them.
JsonEscape(w) ==
    IF w = <<>> THEN <<>>
    ELSE (IF Head(w) \in {QUOTE, BACKSLASH} THEN <<BACKSLASH, Head(w)>>
          ELSE <<Head(w)>>) \o JsonEscape(Tail(w))

JsonString(w) == <<QUOTE>> \o JsonEscape(w) \o <<QUOTE>>

RECURSIVE JsonItems(_)
JsonItems(list) ==
    IF list = <<>> THEN <<>>
    ELSE IF Len(list) = 1 THEN JsonString(list[1])
    ELSE JsonString(list[1]) \o <<",", " ">> \o JsonItems(Tail(list))

\* json.dumps(list, ensure_ascii=False)
JsonDumps(list) == <<"[">> \o JsonItems(list) \o <<"]">>

JsonError == [ok |-> FALSE, value |-> <<>>, next |-> 0]

RECURSIVE SkipSpaces(_, _)
SkipSpaces(text, i) ==
    IF i <= Len(text) /\ text[i] = " " THEN SkipSpaces(text, i + 1) ELSE i

RECURSIVE ReadString(_, _, _)
\* The string whose opening quote is before position i.
ReadString(text, i, acc) ==
    IF i > Len(text) THEN JsonError
    ELSE IF text[i] = QUOTE THEN [ok |-> TRUE, value |-> acc, next |-> i + 1]
    ELSE IF text[i] = BACKSLASH
         THEN IF i + 1 <= Len(text) /\ text[i + 1] \in {QUOTE, BACKSLASH}
              THEN ReadString(text, i + 2, Append(acc, text[i + 1]))
              ELSE JsonError
    ELSE ReadString(text, i + 1, Append(acc, text[i]))

RECURSIVE ReadItems(_, _, _)
\* The items of an array from position i on, one item expected there.
ReadItems(text, i, acc) ==
    LET j == SkipSpaces(text, i) IN
    IF j > Len(text) \/ text[j] /= QUOTE THEN JsonError
    ELSE LET s == ReadString(text, j + 1, <<>>) IN
         IF ~s.ok THEN JsonError
         ELSE LET k == SkipSpaces(text, s.next) IN
              IF k > Len(text) THEN JsonError
              ELSE IF text[k] = "]"
                   THEN [ok |-> TRUE, value |-> Append(acc, s.value), next |-> k + 1]
              ELSE IF text[k] = ","
                   THEN ReadItems(text, k + 1, Append(acc, s.value))
              ELSE JsonError

\* json.loads(text) for a text that is an array of strings; ok is FALSE
\* where json.loads raises.
JsonLoads(text) ==
    LET i == SkipSpaces(text, 1) IN
    IF i > Len(text) \/ text[i] /= "[" THEN JsonError
    ELSE LET j == SkipSpaces(text, i + 1) IN
         LET r == IF j <= Len(text) /\ text[j] = "]"
                  THEN [ok |-> TRUE, value |-> <<>>, next |-> j + 1]
                  ELSE ReadItems(text, j, <<>>)
         IN  IF r.ok /\ SkipSpaces(text, r.next) > Len(text) THEN r
             ELSE JsonError

(***************************************************************************)
(* users and preferences                                                   *)
(***************************************************************************)
\* The columns of the preferences table.
PreferenceColumns ==
    {"chat_id", "role_domain", "remote_only", "city", "area_id", "keywords",
     "role_level", "salary_min", "schedule", "employment", "experience",
     "auto_apply", "prompt", "updated_at"}

\* INSERT INTO preferences (chat_id) VALUES (?) with the DEFAULT role_domain
\* left out of the schema.
DefaultRow_NoDomain(chat_id) ==
    [chat_id |-> chat_id, role_domain |-> None, remote_only |-> 0,
     city |-> "Moskva", area_id |-> 1, keywords |-> NULL, role_level |-> None,
     salary_min |-> 0, schedule |-> "remote", employment |-> "full",
     experience |-> "between3And6", auto_apply |-> 0, prompt |-> None,
     updated_at |-> CURRENT_TIMESTAMP]

\* INSERT INTO preferences (chat_id) VALUES (?): every other column takes
\* the DEFAULT of the schema, NULL where it has none.
DefaultRow(chat_id) ==
    [chat_id |-> chat_id, role_domain |-> "IT", remote_only |-> 0,
     city |-> "Moskva", area_id |-> 1, keywords |-> NULL, role_level |-> None,
     salary_min |-> 0, schedule |-> "remote", employment |-> "full",
     experience |-> "between3And6", auto_apply |-> 0, prompt |-> None,
     updated_at |-> CURRENT_TIMESTAMP]

\* The dict get_preferences returns when there is no row.
DefaultPreferences(chat_id) ==
    [chat_id |-> chat_id, role_domain |-> "IT", remote_only |-> PyFalse,
     city |-> "Moskva", area_id |-> 1, keywords |-> <<>>, role_level |-> None,
     salary_min |-> 0, schedule |-> "remote", employment |-> "full",
     experience |-> "between3And6", auto_apply |-> PyFalse, prompt |-> None]

\* dict(prefs) with the keywords column parsed: [] when it is NULL or
\* empty, and when json.loads raises.
RowToPreferences(row) ==
    [row EXCEPT !.keywords =
        IF ~@.null /\ @.text /= <<>>
        THEN IF JsonLoads(@.text).ok THEN JsonLoads(@.text).value ELSE <<>>
        ELSE <<>>]

\* What get_preferences returns when the table is rows.
PreferencesOf(rows, chat_id) ==
    IF chat_id \in DOMAIN rows
    THEN RowToPreferences(rows[chat_id])
    ELSE DefaultPreferences(chat_id)

\* What get_preferences returns.
GetPreferencesValue(chat_id) == PreferencesOf(preferences, chat_id)

StoreUnchangedByPreferences ==
    UNCHANGED <<sent_vacancies, processed_vacancies, sent_calls, applications>>

get_or_create_user(chat_id) ==
    /\ IF chat_id \in users
       THEN UNCHANGED <<users, preferences, fresh>>
       ELSE /\ users' = users \cup {chat_id}
            /\ preferences' = (chat_id :> DefaultRow(chat_id)) @@ preferences
            /\ fresh' = fresh \cup {chat_id}
    /\ db_result' = DbResult("get_or_create_user", <<chat_id>>, FALSE,
                             ReturnedUser(chat_id))
    /\ StoreUnchangedByPreferences
    /\ UNCHANGED <<clientVars, botVars, loopVars>>

get_preferences(chat_id) ==
    /\ db_result' = DbResult("get_preferences", <<chat_id>>, FALSE,
                             ReturnedDict(GetPreferencesValue(chat_id)))
    /\ UNCHANGED <<users, preferences, fresh>>
    /\ StoreUnchangedByPreferences
    /\ UNCHANGED <<clientVars, botVars, loopVars>>

\* The words of the keyword lists.
PY == <<"p", "y">>

QA == <<"q", QUOTE>>

\* The keyword arguments of update_preferences: one or two columns, a list
\* or a str for keywords, and a column the table does not have.
Kwargs ==
    {[role_domain |-> d] : d \in {"IT", "Management"}}
        \cup {[salary_min |-> 150000, auto_apply |-> PyTrue],
              [salary_min |-> 0, auto_apply |-> PyFalse]}
        \cup {[keywords |-> [list |-> l, str |-> <<>>]] :
                  l \in {<<>>, <<PY, QA>>}}
        \cup {[keywords |-> [list |-> <<>>, str |-> PY]]}
        \cup {[roles |-> <<PY>>]}

\* The value bound to the column: json.dumps of a keywords list, the
\* argument itself otherwise.
BoundValue(kwargs, key) ==
    IF key = "keywords"
    THEN IF kwargs[key].str = <<>> THEN Text(JsonDumps(kwargs[key].list))
         ELSE Text(kwargs[key].str)
    ELSE kwargs[key]

\* UPDATE preferences SET key = ?, ..., updated_at = CURRENT_TIMESTAMP
\* WHERE chat_id = ?: an unknown column is an sqlite3.OperationalError,
\* and no row with that chat_id leaves the table as it is.
UpdatePreferences(chat_id, kwargs) ==
    /\ IF DOMAIN kwargs \subseteq PreferenceColumns
       THEN /\ preferences' =
                  IF chat_id \in DOMAIN preferences
                  THEN [preferences EXCEPT ![chat_id] =
                          [key \in DOMAIN @ |->
                              IF key \in DOMAIN kwargs THEN BoundValue(kwargs, key)
                              ELSE IF key = "updated_at" THEN CURRENT_TIMESTAMP
                              ELSE @[key]]]
                  ELSE preferences
            /\ fresh' = fresh \ {chat_id}
            /\ db_result' = DbResult("update_preferences",
                                     <<chat_id, [kwargs |-> kwargs]>>,
                                     FALSE, NoValue)
       ELSE /\ UNCHANGED <<preferences, fresh>>
            /\ db_result' = DbResult("update_preferences",
                                     <<chat_id, [kwargs |-> kwargs]>>,
                                     TRUE, NoValue)
    /\ UNCHANGED users
    /\ StoreUnchangedByPreferences

\* update_preferences called by itself.
update_preferences(chat_id, kwargs) ==
    /\ UpdatePreferences(chat_id, kwargs)
    /\ UNCHANGED <<clientVars, botVars, loopVars>>

(***************************************************************************)
(* processed_vacancies and the table of the vacancies sent to a chat.  A   *)
(* table is the bag of its rows.                                           *)
(***************************************************************************)
\* INSERT OR IGNORE INTO table, the row being its primary key.
InsertOrIgnore(table, row) ==
    IF BagIn(row, table) THEN table ELSE table (+) SetToBag({row})

\* SELECT 1 FROM processed_vacancies WHERE chat_id = ? AND vacancy_id = ?
is_vacancy_processed(chat_id, vacancy_id) ==
    BagIn(<<chat_id, vacancy_id>>, processed_vacancies)

\* The existence check on the table of sent vacancies.
is_vacancy_sent(chat_id, vacancy_id) ==
    BagIn(<<chat_id, vacancy_id>>, sent_vacancies)

PreferencesUnchangedByMarks ==
    UNCHANGED <<users, preferences, fresh, applications>>

\* mark_vacancy_processed writing the row to the table of sent vacancies
\* as well.
mark_vacancy_processed_AlsoSent(chat_id, vacancy_id) ==
    /\ processed_vacancies' =
          InsertOrIgnore(processed_vacancies, <<chat_id, vacancy_id>>)
    /\ sent_vacancies' = InsertOrIgnore(sent_vacancies, <<chat_id, vacancy_id>>)
    /\ db_result' = DbResult("mark_vacancy_processed", <<chat_id, vacancy_id>>,
                             FALSE, NoValue)
    /\ UNCHANGED sent_calls
    /\ PreferencesUnchangedByMarks
    /\ UNCHANGED <<clientVars, botVars, loopVars>>

mark_vacancy_processed(chat_id, vacancy_id) ==
    /\ processed_vacancies' =
          InsertOrIgnore(processed_vacancies, <<chat_id, vacancy_id>>)
    /\ db_result' = DbResult("mark_vacancy_processed", <<chat_id, vacancy_id>>,
                             FALSE, NoValue)
    /\ UNCHANGED <<sent_vacancies, sent_calls>>
    /\ PreferencesUnchangedByMarks
    /\ UNCHANGED <<clientVars, botVars, loopVars>>

\* mark_vacancy_sent inserting without regard to the key.
mark_vacancy_sent_PlainInsert(chat_id, vacancy_id) ==
    /\ sent_vacancies' = sent_vacancies (+) SetToBag({<<chat_id, vacancy_id>>})
    /\ sent_calls' = sent_calls \cup {<<chat_id, vacancy_id>>}
    /\ db_result' = DbResult("mark_vacancy_sent", <<chat_id, vacancy_id>>,
                             FALSE, NoValue)
    /\ UNCHANGED processed_vacancies
    /\ PreferencesUnchangedByMarks
    /\ UNCHANGED <<clientVars, botVars, loopVars>>

\* The idempotent insert into the table of sent vacancies; sent_calls
\* records the pairs it has been called with.
mark_vacancy_sent(chat_id, vacancy_id) ==
    /\ sent_vacancies' = InsertOrIgnore(sent_vacancies, <<chat_id, vacancy_id>>)
    /\ sent_calls' = sent_calls \cup {<<chat_id, vacancy_id>>}
    /\ db_result' = DbResult("mark_vacancy_sent", <<chat_id, vacancy_id>>,
                             FALSE, NoValue)
    /\ UNCHANGED processed_vacancies
    /\ PreferencesUnchangedByMarks
    /\ UNCHANGED <<clientVars, botVars, loopVars>>

UnchangedByReads ==
    UNCHANGED <<users, preferences, fresh, sent_vacancies, processed_vacancies,
                sent_calls, applications>>

\* is_vacancy_processed called: what it returns.
call_is_vacancy_processed(chat_id, vacancy_id) ==
    /\ db_result' = DbResult("is_vacancy_processed", <<chat_id, vacancy_id>>,
                             FALSE,
                             ReturnedBool(is_vacancy_processed(chat_id, vacancy_id)))
    /\ UnchangedByReads
    /\ UNCHANGED <<clientVars, botVars, loopVars>>

\* is_vacancy_sent called: what it returns.
call_is_vacancy_sent(chat_id, vacancy_id) ==
    /\ db_result' = DbResult("is_vacancy_sent", <<chat_id, vacancy_id>>,
                             FALSE,
                             ReturnedBool(is_vacancy_sent(chat_id, vacancy_id)))
    /\ UnchangedByReads
    /\ UNCHANGED <<clientVars, botVars, loopVars>>

(***************************************************************************)
(* applications                                                            *)
(***************************************************************************)
MaxApplications == 3

Statuses_ == {"success", "failed"}

\* The row INSERT INTO applications makes: id is the AUTOINCREMENT key,
\* applied_at the DEFAULT CURRENT_TIMESTAMP; title, company and cover
\* letter are not modelled.
ApplicationRow(id, chat_id, vacancy_id, status) ==
    [id |-> id, chat_id |-> chat_id, vacancy_id |-> vacancy_id,
     status |-> status, applied_at |-> CURRENT_TIMESTAMP]

\* The rows of a table of applications that have chat_id.
ApplicationsOf(rows, chat_id) ==
    SelectSeq(rows, LAMBDA row : row.chat_id = chat_id)

\* The next AUTOINCREMENT id: one more than the largest ever used; no row
\* is ever deleted, so one more than the number of rows.
NextId(rows) == Len(rows) + 1

\* log_application replacing the row the chat has for the vacancy, if any.
log_application_Upsert(chat_id, vacancy_id, status) ==
    /\ Len(applications) < MaxApplications
    /\ applications' =
          LET old == {i \in 1..Len(applications) :
                        /\ applications[i].chat_id = chat_id
                        /\ applications[i].vacancy_id = vacancy_id}
          IN  IF old = {}
              THEN Append(applications,
                          ApplicationRow(NextId(applications), chat_id,
                                         vacancy_id, status))
              ELSE [i \in 1..Len(applications) |->
                       IF i \in old
                       THEN [applications[i] EXCEPT !.status = status]
                       ELSE applications[i]]
    /\ db_result' = DbResult("log_application", <<chat_id, vacancy_id>>,
                             FALSE, NoValue)
    /\ UNCHANGED <<users, preferences, fresh, sent_vacancies,
                   processed_vacancies, sent_calls>>
    /\ UNCHANGED <<clientVars, botVars, loopVars>>

\* log_application: one INSERT INTO applications.
log_application(chat_id, vacancy_id, status) ==
    /\ Len(applications) < MaxApplications
    /\ applications' =
          Append(applications,
                 ApplicationRow(NextId(applications), chat_id, vacancy_id, status))
    /\ db_result' = DbResult("log_application", <<chat_id, vacancy_id>>,
                             FALSE, NoValue)
    /\ UNCHANGED <<users, preferences, fresh, sent_vacancies,
                   processed_vacancies, sent_calls>>
    /\ UNCHANGED <<clientVars, botVars, loopVars>>

\* SELECT COUNT(*) FROM applications WHERE chat_id = ?
ApplicationsCount(chat_id) == Len(ApplicationsOf(applications, chat_id))

\* get_applications_count(chat_id), since not given.
get_applications_count(chat_id) ==
    /\ db_result' = DbResult("get_applications_count", <<chat_id>>, FALSE,
                             ReturnedInt(ApplicationsCount(chat_id)))
    /\ UnchangedByReads
    /\ UNCHANGED <<clientVars, botVars, loopVars>>

\* Database(db_path) on a new file: init_database leaves every table empty.
StoreInit ==
    /\ users = {}
    /\ preferences = <<>>
    /\ fresh = {}
    /\ sent_vacancies = EmptyBag
    /\ processed_vacancies = EmptyBag
    /\ sent_calls = {}
    /\ applications = <<>>
    /\ db_result = NoDbResult

(***************************************************************************)
(* JobBot: the monitoring job and the handlers that reach the provider.    *)
(* main() has called set_application and start_monitoring: self.app is     *)
(* set and the job is scheduled.  A step goes from one await at which      *)
(* another handler can run to the next.                                    *)
(***************************************************************************)
\* The ids of the vacancies the provider's search returns.
PostingIds == VacancyIds \cup {"v3"}

\* The row get_monitoring_state gives for a chat that has none.
DefaultMonitoringState == [monitoring_enabled |-> FALSE, last_check |-> None]

\* update_monitoring_state(chat_id, enabled=enabled) on the table.
SetEnabled(table, chat_id, enabled) ==
    [table EXCEPT ![chat_id].monitoring_enabled = enabled]

\* update_monitoring_state(chat_id, last_check=datetime.now()) on the table.
SetLastCheck(table, chat_id) ==
    [table EXCEPT ![chat_id].last_check = CURRENT_TIMESTAMP]

\* The members of a set of chat_ids, smallest first.
RECURSIVE Ascending(_)
Ascending(S) ==
    IF S = {} THEN <<>>
    ELSE LET least == CHOOSE x \in S : \A y \in S : x <= y
         IN  <<least>> \o Ascending(S \ {least})

\* get_all_monitoring_users on the table: the chats whose flag is set.
MonitoringUsers(table) ==
    Ascending({chat_id \in ChatIds : table[chat_id].monitoring_enabled})

get_all_monitoring_users == MonitoringUsers(monitoring_state)

\* 1.0 / config.HH_RATE_LIMIT_QPS, in ticks of the clock.
MinInterval == 2

\* A duration as far as a comparison with the interval can tell.
Capped(t) == IF t < MinInterval THEN t ELSE MinInterval

\* No call of the provider made yet.  since is the time passed since the
\* last call, min_gap the least time between two calls that followed each
\* other, kind the last call, answered the status the last apply request
\* ended with.
NoCalls ==
    [since |-> MinInterval, min_gap |-> MinInterval, kind |-> "none",
     answered |-> 0]

\* A call of the provider made now.
ProviderCall(p, kind) ==
    [since |-> 0,
     min_gap |-> IF p.kind /= "none" /\ p.since < p.min_gap THEN p.since
                 ELSE p.min_gap,
     kind |-> kind,
     answered |-> p.answered]

\* The apply request ended with answer.
Answered(p, answer) == [p EXCEPT !.answered = answer.status]

\* The time t passing.
Passed(p, t) == [p EXCEPT !.since = Capped(@ + t)]

\* _wait_for_rate_limit: the time it sleeps when the last request was
\* made elapsed ago.
WaitTime(elapsed) == IF elapsed < MinInterval THEN MinInterval - elapsed ELSE 0

\* A job that may run twice at a time.
max_instances_Two == 1 + 1

\* max_instances of the job add_job makes: the scheduler does not start an
\* instance of a job while that many are running.
max_instances == 1

\* prefs.get('auto_apply', False) as a condition.
AutoApply(chat_id) == GetPreferencesValue(chat_id).auto_apply /= PyFalse

\* result.get('success') of the client's apply_to_vacancy, the request
\* having ended with answer.
ApplySucceeds(answer) ==
    ResponseTruthy(answer) /\ answer.status \in {200, 201, 409}

\* The answers of the provider the client ends an apply request with.
ApplyAnswers ==
    {Response(201, {<<"Location", LOCATION>>}), Response(400, {}),
     Response(409, {}), Raised("Timeout")}

\* What a handler has written so far.
Here ==
    [applications |-> applications, processed_vacancies |-> processed_vacancies,
     provider |-> provider, apply_requests |-> apply_requests]

\* JobBot.apply_to_vacancy without its mark_vacancy_processed.
JobBot_apply_to_vacancy_NoMark(s, chat_id, vacancy_id, details, answer, raised) ==
    IF ~Truthy(access_token) \/ ~Truthy(HH_RESUME_ID) THEN s
    ELSE LET fetched == [s EXCEPT !.provider = ProviderCall(@, "details")]
             applied ==
                 [fetched EXCEPT
                     !.provider = Answered(ProviderCall(@, "apply"), answer),
                     !.apply_requests = @ (+) SetToBag({<<chat_id, vacancy_id>>})]
         IN  IF ~details THEN fetched
             ELSE IF raised = "log_application" THEN applied
             ELSE [applied EXCEPT
                      !.applications =
                          Append(@, ApplicationRow(
                                        NextId(@), chat_id, vacancy_id,
                                        IF ApplySucceeds(answer) THEN "success"
                                        ELSE "failed"))]

\* JobBot.apply_to_vacancy(chat_id, vacancy) after s: details tells whether
\* get_vacancy_details returned the vacancy, answer is the provider's to the
\* apply request, raised the store method that raises.  The except clause
\* returns a result as well.
JobBot_apply_to_vacancy(s, chat_id, vacancy_id, details, answer, raised) ==
    IF ~Truthy(access_token) \/ ~Truthy(HH_RESUME_ID) THEN s
    ELSE LET fetched == [s EXCEPT !.provider = ProviderCall(@, "details")]
             applied ==
                 [fetched EXCEPT
                     !.provider = Answered(ProviderCall(@, "apply"), answer),
                     !.apply_requests = @ (+) SetToBag({<<chat_id, vacancy_id>>})]
         IN  IF ~details THEN fetched
             ELSE IF raised = "log_application" THEN applied
             ELSE [applied EXCEPT
                      !.applications =
                          Append(@, ApplicationRow(
                                        NextId(@), chat_id, vacancy_id,
                                        IF ApplySucceeds(answer) THEN "success"
                                        ELSE "failed")),
                      !.processed_vacancies =
                          IF raised = "mark_vacancy_processed" THEN @
                          ELSE InsertOrIgnore(@, <<chat_id, vacancy_id>>)]

\* The handler leaves s.
Leave_(s) ==
    /\ applications' = s.applications
    /\ processed_vacancies' = s.processed_vacancies
    /\ provider' = s.provider
    /\ apply_requests' = s.apply_requests

\* The filter of check_user_vacancies on processed_vacancies.
NewVacancies_ByProcessed(chat_id, vacancies) ==
    SelectSeq(vacancies, LAMBDA v : ~is_vacancy_processed(chat_id, v))

\* [v for v in vacancies if not self.db.is_vacancy_sent(chat_id, v['id'])]
NewVacancies(chat_id, vacancies) ==
    SelectSeq(vacancies, LAMBDA v : ~is_vacancy_sent(chat_id, v))

\* The ids a chat has in the table of sent vacancies.
SentTo(chat_id) == {v \in PostingIds : is_vacancy_sent(chat_id, v)}

\* An instance of check_all_users_vacancies that has loaded chats: i is the
\* position of the loop, checked the chats check_user_vacancies was called
\* for, failures those whose call ended in its except clause; the other
\* fields are those of the call for the chat at i:
\* vacancies is what the search returned, seen what the chat had been sent
\* by then, dispatches the calls of send_monitored_vacancy, failed tells
\* that the call ended in its except clause.
Cycle(chats) ==
    [monitoring_users |-> chats, i |-> 1, pc |-> "check", checked |-> <<>>,
     failures |-> <<>>, vacancies |-> <<>>, seen |-> {}, new_vacancies |-> <<>>, j |-> 1,
     dispatches |-> <<>>, failed |-> FALSE]

\* The chat the loop of the instance is at.
ChatOf(cycle) == cycle.monitoring_users[cycle.i]

UnchangedByJob ==
    UNCHANGED <<users, preferences, fresh, db_result, HH_RESUME_ID, loopVars>>

\* The job fires: check_all_users_vacancies up to its loop.  A
\* get_all_monitoring_users that raises ends it, and so does an empty list.
check_all_users_vacancies(raised) ==
    /\ Len(cycles) < max_instances
    /\ cycles' =
          IF raised \/ get_all_monitoring_users = <<>> THEN cycles
          ELSE Append(cycles, Cycle(get_all_monitoring_users))
    /\ UNCHANGED <<monitoring_state, current_vacancies, last_hh_request,
                   provider, apply_requests, dispatched, buttons, delivered>>
    /\ UNCHANGED <<sent_vacancies, processed_vacancies, sent_calls, applications>>
    /\ UNCHANGED clientVars
    /\ UnchangedByJob

\* check_user_vacancies up to its loop, for instance k: the search returns
\* vacancies and the store method raised raises.
check_user_vacancies(k, vacancies, raised) ==
    /\ k \in DOMAIN cycles
    /\ cycles[k].pc = "check"
    /\ LET cycle == [cycles[k] EXCEPT !.checked = Append(@, ChatOf(cycles[k]))]
           chat_id == ChatOf(cycle)
           new_vacancies == NewVacancies(chat_id, vacancies)
           searched == [cycle EXCEPT !.vacancies = vacancies,
                                     !.seen = SentTo(chat_id)]
       IN  IF raised = "get_preferences"
           THEN /\ cycles' = [cycles EXCEPT ![k] =
                                 [cycle EXCEPT !.pc = "sleep", !.failed = TRUE,
                                               !.failures = Append(@, chat_id)]]
                /\ UNCHANGED <<last_hh_request, provider, monitoring_state>>
           ELSE /\ last_hh_request' = 0
                /\ provider' =
                      ProviderCall(Passed(provider, WaitTime(last_hh_request)),
                                   "search")
                /\ IF vacancies = <<>>
                   THEN /\ cycles' = [cycles EXCEPT ![k] =
                                         [searched EXCEPT !.pc = "sleep"]]
                        /\ UNCHANGED monitoring_state
                   ELSE IF raised = "is_vacancy_sent"
                   THEN /\ cycles' = [cycles EXCEPT ![k] =
                                         [searched EXCEPT
                                             !.pc = "sleep", !.failed = TRUE,
                                             !.failures = Append(@, chat_id)]]
                        /\ UNCHANGED monitoring_state
                   ELSE IF new_vacancies = <<>>
                   THEN /\ cycles' = [cycles EXCEPT ![k] =
                                         [searched EXCEPT !.pc = "sleep"]]
                        /\ UNCHANGED monitoring_state
                   ELSE /\ cycles' = [cycles EXCEPT ![k] =
                                         [searched EXCEPT
                                             !.pc = "dispatch",
                                             !.new_vacancies = new_vacancies]]
                        /\ monitoring_state' = SetLastCheck(monitoring_state, chat_id)
    /\ UNCHANGED <<current_vacancies, apply_requests, dispatched, buttons,
                   delivered>>
    /\ UNCHANGED <<sent_vacancies, processed_vacancies, sent_calls, applications>>
    /\ UNCHANGED clientVars
    /\ UnchangedByJob

\* One turn of the loop of check_user_vacancies, for instance k:
\* send_monitored_vacancy, mark_vacancy_sent and the sleep.  A send_message
\* that raises ends send_monitored_vacancy in its own except clause.
send_monitored_vacancy(k, details, answer, raised) ==
    /\ k \in DOMAIN cycles
    /\ cycles[k].pc = "dispatch"
    /\ LET cycle == cycles[k]
           chat_id == ChatOf(cycle)
           vacancy_id == cycle.new_vacancies[cycle.j]
           sent == [cycle EXCEPT !.dispatches = Append(@, vacancy_id)]
       IN  /\ IF AutoApply(chat_id)
              THEN /\ Len(applications) < MaxApplications
                   /\ Leave_(JobBot_apply_to_vacancy(Here, chat_id, vacancy_id,
                                                     details, answer, raised))
                   /\ UNCHANGED <<current_vacancies, buttons>>
              ELSE /\ current_vacancies' =
                         current_vacancies \cup {<<chat_id, vacancy_id>>}
                   /\ buttons' = IF raised = "send_message" THEN buttons
                                 ELSE buttons \cup {<<chat_id, vacancy_id>>}
                   /\ UNCHANGED <<applications, processed_vacancies, provider,
                                  apply_requests>>
           /\ dispatched' = dispatched \cup {<<chat_id, vacancy_id>>}
           /\ delivered' = IF raised = "send_message" THEN delivered
                           ELSE delivered \cup {<<chat_id, vacancy_id>>}
           /\ IF raised = "mark_vacancy_sent"
              THEN /\ cycles' = [cycles EXCEPT ![k] =
                                    [sent EXCEPT !.pc = "sleep", !.failed = TRUE,
                                                 !.failures = Append(@, chat_id)]]
                   /\ UNCHANGED <<sent_vacancies, sent_calls>>
              ELSE /\ cycles' = [cycles EXCEPT ![k] =
                          [sent EXCEPT
                              !.j = @ + 1,
                              !.pc = IF cycle.j = Len(cycle.new_vacancies)
                                     THEN "sleep" ELSE "dispatch"]]
                   /\ sent_vacancies' =
                         InsertOrIgnore(sent_vacancies, <<chat_id, vacancy_id>>)
                   /\ sent_calls' = sent_calls \cup {<<chat_id, vacancy_id>>}
    /\ UNCHANGED <<monitoring_state, last_hh_request>>
    /\ UNCHANGED clientVars
    /\ UnchangedByJob

\* A sequence without its k-th member.
Without(seq, k) ==
    [n \in 1..(Len(seq) - 1) |-> IF n < k THEN seq[n] ELSE seq[n + 1]]

\* The cycles after the loop that gives up at a chat whose call failed.
AfterUser_StopsOnFailure(k) ==
    LET cycle == cycles[k]
    IN  IF cycle.i < Len(cycle.monitoring_users) /\ ~cycle.failed
        THEN [cycles EXCEPT ![k] =
                 [Cycle(cycle.monitoring_users) EXCEPT
                     !.i = cycle.i + 1, !.checked = cycle.checked,
                     !.failures = cycle.failures]]
        ELSE Without(cycles, k)

\* The cycles after the loop of check_all_users_vacancies went on from the
\* chat at i: to the next chat, or to the end of the instance.
AfterUser(k) ==
    LET cycle == cycles[k]
    IN  IF cycle.i < Len(cycle.monitoring_users)
        THEN [cycles EXCEPT ![k] =
                 [Cycle(cycle.monitoring_users) EXCEPT
                     !.i = cycle.i + 1, !.checked = cycle.checked,
                     !.failures = cycle.failures]]
        ELSE Without(cycles, k)

\* await asyncio.sleep(2) and the loop of check_all_users_vacancies, for
\* instance k.
next_user(k) ==
    /\ k \in DOMAIN cycles
    /\ cycles[k].pc = "sleep"
    /\ cycles' = AfterUser(k)
    /\ UNCHANGED <<monitoring_state, current_vacancies, last_hh_request,
                   provider, apply_requests, dispatched, buttons, delivered>>
    /\ UNCHANGED <<sent_vacancies, processed_vacancies, sent_calls, applications>>
    /\ UNCHANGED clientVars
    /\ UnchangedByJob

UnchangedByCommand ==
    /\ UNCHANGED <<current_vacancies, cycles, last_hh_request, provider,
                   apply_requests, dispatched, buttons, delivered, HH_RESUME_ID>>
    /\ UNCHANGED storeVars
    /\ UNCHANGED clientVars
    /\ UNCHANGED loopVars

\* monitoring_off_command taking the chat out of the running instances too.
monitoring_off_command_Cancels(chat_id) ==
    /\ monitoring_state' = SetEnabled(monitoring_state, chat_id, FALSE)
    /\ cycles' =
          [k \in DOMAIN cycles |->
              [cycles[k] EXCEPT !.monitoring_users =
                  LET later == {n \in DOMAIN @ : n > cycles[k].i /\ @[n] = chat_id}
                  IN  IF later = {} THEN @ ELSE Without(@, CHOOSE n \in later : TRUE)]]
    /\ UNCHANGED <<current_vacancies, last_hh_request, provider,
                   apply_requests, dispatched, buttons, delivered, HH_RESUME_ID>>
    /\ UNCHANGED storeVars
    /\ UNCHANGED clientVars
    /\ UNCHANGED loopVars

monitoring_on_command(chat_id) ==
    /\ monitoring_state' = SetEnabled(monitoring_state, chat_id, TRUE)
    /\ UnchangedByCommand

monitoring_off_command(chat_id) ==
    /\ monitoring_state' = SetEnabled(monitoring_state, chat_id, FALSE)
    /\ UnchangedByCommand

\* toggle_auto_apply: not prefs.get('auto_apply', False) is bound as 0 or 1.
toggle_auto_apply(chat_id) ==
    update_preferences(chat_id, [auto_apply |->
                                    IF AutoApply(chat_id) THEN PyFalse ELSE PyTrue])

\* apply_to_vacancy for each of vacancies in turn, after s.
RECURSIVE ApplyToEach(_, _, _, _, _)
ApplyToEach(s, chat_id, vacancies, details, answer) ==
    IF vacancies = <<>> THEN s
    ELSE ApplyToEach(JobBot_apply_to_vacancy(s, chat_id, Head(vacancies),
                                             details, answer, "none"),
                     chat_id, Tail(vacancies), details, answer)

\* perform_search(chat_id, message): the search returns vacancies; with
\* auto_apply every card show_vacancy_card shows is an application, and the
\* provider answers each of them alike.
perform_search(chat_id, vacancies, details, answer) ==
    LET searched == [Here EXCEPT !.provider = ProviderCall(@, "search")]
        new_vacancies ==
            SelectSeq(vacancies, LAMBDA v : ~is_vacancy_processed(chat_id, v))
        cards == {<<chat_id, new_vacancies[n]>> : n \in DOMAIN new_vacancies}
    IN  /\ IF new_vacancies = <<>>
           THEN /\ Leave_(searched)
                /\ UNCHANGED <<current_vacancies, buttons>>
           ELSE /\ current_vacancies' =
                      {p \in current_vacancies : p[1] /= chat_id} \cup cards
                /\ IF AutoApply(chat_id)
                   THEN /\ Len(applications) + Len(new_vacancies) <= MaxApplications
                        /\ Leave_(ApplyToEach(searched, chat_id, new_vacancies,
                                              details, answer))
                        /\ UNCHANGED buttons
                   ELSE /\ Leave_(searched)
                        /\ buttons' = buttons \cup cards
        /\ UNCHANGED <<monitoring_state, cycles, last_hh_request, dispatched,
                       delivered>>
        /\ UNCHANGED <<sent_vacancies, sent_calls>>
        /\ UNCHANGED clientVars
        /\ UnchangedByJob

\* handle_vacancy_action for the button action, "apply" or "skip", of a
\* card of vacancy_id that shows its buttons; edit_message_text takes the
\* buttons off the card.
handle_vacancy_action(chat_id, vacancy_id, action, details, answer) ==
    /\ <<chat_id, vacancy_id>> \in buttons
    /\ IF action = "apply"
       THEN IF <<chat_id, vacancy_id>> \in current_vacancies
            THEN /\ Len(applications) < MaxApplications
                 /\ Leave_(JobBot_apply_to_vacancy(Here, chat_id, vacancy_id,
                                                   details, answer, "none"))
                 /\ buttons' = buttons \ {<<chat_id, vacancy_id>>}
            ELSE UNCHANGED <<applications, processed_vacancies, provider,
                             apply_requests, buttons>>
       ELSE /\ processed_vacancies' =
                  InsertOrIgnore(processed_vacancies, <<chat_id, vacancy_id>>)
            /\ buttons' = buttons \ {<<chat_id, vacancy_id>>}
            /\ UNCHANGED <<applications, provider, apply_requests>>
    /\ UNCHANGED <<monitoring_state, current_vacancies, cycles, last_hh_request,
                   dispatched, delivered>>
    /\ UNCHANGED <<sent_vacancies, sent_calls>>
    /\ UNCHANGED clientVars
    /\ UnchangedByJob

\* The texts a chat sends when asked for a salary: numbers as int() reads
\* them, one of them negative, and a text that is no number.
SalaryTexts == {<<"0">>, <<"7">>, <<"-", "7">>, <<"x">>}

\* The button 'criteria_salary' of handle_callback:
\* context.user_data['waiting_for'] = 'salary'.
criteria_salary(chat_id) ==
    /\ user_data' = [user_data EXCEPT ![chat_id] = "salary"]
    /\ UNCHANGED <<pending, running, in_flight>>
    /\ UNCHANGED <<clientVars, storeVars, botVars>>

\* handle_text_message while the chat is asked for a salary: int(text), and
\* update_preferences(chat_id, salary_min=salary) unless int raised
\* ValueError; waiting_for is popped either way.  A text that comes while
\* nothing is asked for is left alone.
handle_text_message(chat_id, text) ==
    /\ user_data[chat_id] = "salary"
    /\ LET salary == ParseInt(text)
       IN  IF salary.ok
           THEN UpdatePreferences(chat_id, [salary_min |-> salary.v])
           ELSE UNCHANGED storeVars
    /\ user_data' = [user_data EXCEPT ![chat_id] = None]
    /\ UNCHANGED <<pending, running, in_flight>>
    /\ UNCHANGED <<clientVars, botVars>>

\* cancel_command: context.user_data.pop('waiting_for', None)
cancel_command(chat_id) ==
    /\ user_data' = [user_data EXCEPT ![chat_id] = None]
    /\ UNCHANGED <<pending, running, in_flight>>
    /\ UNCHANGED <<clientVars, storeVars, botVars>>

\* The handlers that call the provider: the monitoring job's check of one
\* subscriber, the search of a chat and the apply button of a card.
Handlers == {"check_user_vacancies", "perform_search", "handle_vacancy_action"}

\* The handlers a user starts.
InteractiveHandlers == {"perform_search", "handle_vacancy_action"}

\* The holder of the thread had the call been awaited in an executor: the
\* event loop gets the thread back for the time of the call.
ThreadDuring_InExecutor(handler) == None

\* The holder of the event loop's thread while a handler is inside a method
\* of the client: the methods are plain functions called without await, so
\* the handler keeps the thread until the method returns.
ThreadDuring(handler) == handler

\* An update for a handler comes in, or the job reaches its next subscriber:
\* the handler waits for the thread.
arrive(handler) ==
    /\ handler \notin pending
    /\ handler \notin in_flight
    /\ pending' = pending \cup {handler}
    /\ UNCHANGED <<user_data, running, in_flight>>
    /\ UNCHANGED <<clientVars, storeVars, botVars>>

\* The event loop gives the free thread to a waiting handler, which runs up
\* to its first call of the client: search_vacancies in the job and in
\* perform_search, get_vacancy_details in apply_to_vacancy.
call_client(handler) ==
    /\ handler \in pending
    /\ running = None
    /\ pending' = pending \ {handler}
    /\ running' = ThreadDuring(handler)
    /\ in_flight' = in_flight \cup {handler}
    /\ IF handler = "handle_vacancy_action"
       THEN GetVacancyDetailsBegin
       ELSE SearchVacanciesBegin
    /\ UNCHANGED user_data
    /\ UNCHANGED <<storeVars, botVars>>

\* apply_to_vacancy of the bot after get_vacancy_details returned: with the
\* details it goes on to apply_to_vacancy of the client without an await in
\* between, without them it returns and the handler awaits its reply.
after_details ==
    /\ "handle_vacancy_action" \in in_flight
    /\ op = "details" /\ pc = "idle"
    /\ IF details_result.kind = "dict"
       THEN /\ ApplyToVacancyBegin(HH_RESUME_ID)
            /\ UNCHANGED <<running, in_flight>>
       ELSE /\ in_flight' = in_flight \ {"handle_vacancy_action"}
            /\ running' = None
            /\ UNCHANGED clientVars
    /\ UNCHANGED <<user_data, pending>>
    /\ UNCHANGED <<storeVars, botVars>>

\* The last call of the handler returned and the handler reaches its next
\* await (a message to the chat, asyncio.sleep): the thread is free again.
call_returned(handler) ==
    /\ handler \in in_flight
    /\ pc = "idle"
    /\ op = (IF handler = "handle_vacancy_action" THEN "apply" ELSE "search")
    /\ in_flight' = in_flight \ {handler}
    /\ running' = None
    /\ UNCHANGED <<user_data, pending>>
    /\ UNCHANGED <<clientVars, storeVars, botVars>>

\* A tick of the clock.
Tick ==
    /\ last_hh_request' = Capped(last_hh_request + 1)
    /\ provider' = Passed(provider, 1)
    /\ UNCHANGED <<monitoring_state, HH_RESUME_ID, current_vacancies, cycles,
                   apply_requests, dispatched, buttons, delivered>>
    /\ UNCHANGED storeVars
    /\ UNCHANGED clientVars
    /\ UNCHANGED loopVars

\* JobBot() and main() up to run_polling: last_hh_request is ten seconds
\* ago, which is no less than the interval; resume_ids are the values
\* config.HH_RESUME_ID can have.
JobBotInit(resume_ids) ==
    /\ monitoring_state = [chat_id \in ChatIds |-> DefaultMonitoringState]
    /\ HH_RESUME_ID \in resume_ids
    /\ current_vacancies = {}
    /\ cycles = <<>>
    /\ last_hh_request = MinInterval
    /\ provider = NoCalls
    /\ apply_requests = EmptyBag
    /\ dispatched = {}
    /\ buttons = {}
    /\ delivered = {}
    /\ user_data = [chat_id \in ChatIds |-> None]
    /\ pending = {}
    /\ running = None
    /\ in_flight = {}

(***************************************************************************)
(* The client after __init__, and its behaviours.                          *)
(***************************************************************************)
USER_AGENT == "hh-bot"

\* HeadHunterClient(access_token=a, refresh_token=r), config holding cfg.
HeadHunterClientInit ==
    /\ access_token \in {None, "", "a0"}
    /\ \E r \in {None, "r0"}, cfg \in {None, "r0"} : refresh_token = OrElse(r, cfg)
    /\ session_headers =
          LET ua == {<<"User-Agent", USER_AGENT>>, <<"HH-User-Agent", USER_AGENT>>}
          IN  IF Truthy(access_token)
              THEN HeadersUpdate(ua, "Authorization", Bearer(access_token))
              ELSE ua
    /\ HH_OAUTH_CLIENT_ID \in {None, "client_id"}
    /\ HH_OAUTH_CLIENT_SECRET \in {None, "client_secret"}
    /\ response_type \in ResponseTypes
    /\ op = "none"
    /\ pc = "idle"
    /\ attempt = 0
    /\ last_exception = NoException
    /\ req_result = NoResult
    /\ hist = <<>>
    /\ sleeps = <<>>
    /\ apply_stage = "none"
    /\ apply_result = NoApplyResult
    /\ resume_id = None
    /\ search_result = NoSearchResult
    /\ details_result = NoDetailsResult
    /\ requests_made = 0
    /\ refresh_log = NoRefresh

\* A client and a store of their own: no JobBot, and no resume configured.
Init ==
    /\ HeadHunterClientInit
    /\ StoreInit
    /\ JobBotInit({None})

Next ==
    \/ CallRequestWithRetry
    \/ \E o \in Outcomes : Attempt(o)
    \/ LoopEnd
    \/ \E t \in TokenAnswers : CallRefreshAccessToken(t)
    \/ \E rid \in {None, "resume_1"} : CallApplyToVacancy(rid)
    \/ \E t \in TokenAnswers : ApplyAfterFirst(t)
    \/ ApplyAfterRetry
    \/ CallSearchVacancies
    \/ SearchReturn
    \/ CallGetVacancyDetails
    \/ DetailsReturn

Spec == Init /\ [][Next]_vars

(***************************************************************************)
(* The store's behaviours, beside a client that is not called.             *)
(***************************************************************************)
InitStore ==
    /\ Init
    /\ access_token = "a0"
    /\ refresh_token = "r0"
    /\ HH_OAUTH_CLIENT_ID = "client_id"
    /\ HH_OAUTH_CLIENT_SECRET = "client_secret"
    /\ response_type = "Response"

NextDedup ==
    \/ \E c \in ChatIds, v \in VacancyIds : mark_vacancy_sent(c, v)
    \/ \E c \in ChatIds, v \in VacancyIds : call_is_vacancy_sent(c, v)
    \/ \E c \in ChatIds, v \in VacancyIds : mark_vacancy_processed(c, v)
    \/ \E c \in ChatIds, v \in VacancyIds : call_is_vacancy_processed(c, v)

SpecDedup == InitStore /\ [][NextDedup]_vars

NextPrefs ==
    \/ \E c \in ChatIds : get_or_create_user(c)
    \/ \E c \in ChatIds : get_preferences(c)
    \/ \E c \in ChatIds, kwargs \in Kwargs : update_preferences(c, kwargs)

SpecPrefs == InitStore /\ [][NextPrefs]_vars

NextLog ==
    \/ \E c \in ChatIds, v \in VacancyIds, status \in Statuses_ :
           log_application(c, v, status)
    \/ \E c \in ChatIds : get_applications_count(c)

SpecLog == InitStore /\ [][NextLog]_vars

(***************************************************************************)
(* The monitoring job beside the commands that switch monitoring, no chat  *)
(* having auto_apply set.                                                  *)
(***************************************************************************)
\* main() with every variable of the environment set.
InitBot ==
    /\ HeadHunterClientInit
    /\ access_token = "a0"
    /\ refresh_token = "r0"
    /\ HH_OAUTH_CLIENT_ID = "client_id"
    /\ HH_OAUTH_CLIENT_SECRET = "client_secret"
    /\ response_type = "Response"
    /\ StoreInit
    /\ JobBotInit({"resume_1"})

\* What a search returns: nothing, and lists of vacancies that differ by one.
SearchPages == {<<>>, <<"v1", "v2">>, <<"v1", "v2", "v3">>}

\* The provider accepting an application.
Created == Response(201, {<<"Location", LOCATION>>})

NextPoll ==
    \/ \E c \in ChatIds : monitoring_on_command(c)
    \/ \E c \in ChatIds : monitoring_off_command(c)
    \/ \E raised \in BOOLEAN : check_all_users_vacancies(raised)
    \/ \E k \in 1..max_instances, vacancies \in SearchPages,
          raised \in {"none", "get_preferences", "is_vacancy_sent"} :
           check_user_vacancies(k, vacancies, raised)
    \/ \E k \in 1..max_instances, raised \in {"none", "mark_vacancy_sent"} :
           send_monitored_vacancy(k, TRUE, Created, raised)
    \/ \E k \in 1..max_instances : next_user(k)

SpecPoll == InitBot /\ [][NextPoll]_vars

(***************************************************************************)
(* The monitoring job for chats that can set auto_apply, no store method   *)
(* raising.                                                                *)
(***************************************************************************)
\* What a search returns: nothing, or one vacancy.
OnePage == {<<>>, <<"v1">>}

\* The provider accepting an application, and refusing one.
Answers == {Created, Response(400, {})}

NextAuto ==
    \/ \E c \in ChatIds : get_or_create_user(c)
    \/ \E c \in ChatIds : toggle_auto_apply(c)
    \/ \E c \in ChatIds : monitoring_on_command(c)
    \/ check_all_users_vacancies(FALSE)
    \/ \E k \in 1..max_instances, vacancies \in OnePage :
           check_user_vacancies(k, vacancies, "none")
    \/ \E k \in 1..max_instances, answer \in Answers :
           send_monitored_vacancy(k, TRUE, answer, "none")
    \/ \E k \in 1..max_instances : next_user(k)

SpecAuto == InitBot /\ [][NextAuto]_vars

(***************************************************************************)
(* The monitoring job beside the searches and the buttons of the chat.     *)
(***************************************************************************)
NextApply ==
    \/ \E c \in ChatIds : get_or_create_user(c)
    \/ \E c \in ChatIds : toggle_auto_apply(c)
    \/ \E c \in ChatIds : monitoring_on_command(c)
    \/ check_all_users_vacancies(FALSE)
    \/ \E k \in 1..max_instances, vacancies \in OnePage :
           check_user_vacancies(k, vacancies, "none")
    \/ \E k \in 1..max_instances :
           send_monitored_vacancy(k, TRUE, Created, "none")
    \/ \E k \in 1..max_instances : next_user(k)
    \/ \E c \in ChatIds, vacancies \in OnePage :
           perform_search(c, vacancies, TRUE, Created)
    \/ \E c \in ChatIds, action \in {"apply", "skip"} :
           handle_vacancy_action(c, "v1", action, TRUE, Created)

SpecApply == InitBot /\ [][NextApply]_vars

(***************************************************************************)
(* The searches of the monitoring job and of the chat while the clock      *)
(* ticks, no chat having auto_apply set.                                   *)
(***************************************************************************)
NextRate ==
    \/ \E c \in ChatIds : monitoring_on_command(c)
    \/ check_all_users_vacancies(FALSE)
    \/ \E k \in 1..max_instances, vacancies \in OnePage :
           check_user_vacancies(k, vacancies, "none")
    \/ \E k \in 1..max_instances :
           send_monitored_vacancy(k, TRUE, Created, "none")
    \/ \E k \in 1..max_instances : next_user(k)
    \/ \E c \in ChatIds, vacancies \in OnePage :
           perform_search(c, vacancies, TRUE, Created)
    \/ Tick

SpecRate == InitBot /\ [][NextRate]_vars

(***************************************************************************)
(* The monitoring job for chats without auto_apply, a send_message of the  *)
(* notification raising or not.                                            *)
(***************************************************************************)
NextSend ==
    \/ \E c \in ChatIds : monitoring_on_command(c)
    \/ \E c \in ChatIds : monitoring_off_command(c)
    \/ check_all_users_vacancies(FALSE)
    \/ \E k \in 1..max_instances, vacancies \in SearchPages :
           check_user_vacancies(k, vacancies, "none")
    \/ \E k \in 1..max_instances, raised \in {"none", "send_message"} :
           send_monitored_vacancy(k, TRUE, Created, raised)
    \/ \E k \in 1..max_instances : next_user(k)

SpecSend == InitBot /\ [][NextSend]_vars

(***************************************************************************)
(* The chat entering its minimum salary as a text.                         *)
(***************************************************************************)
NextSalary ==
    \/ \E c \in ChatIds : get_or_create_user(c)
    \/ \E c \in ChatIds : get_preferences(c)
    \/ \E c \in ChatIds : criteria_salary(c)
    \/ \E c \in ChatIds, text \in SalaryTexts : handle_text_message(c, text)
    \/ \E c \in ChatIds : cancel_command(c)

SpecSalary == InitBot /\ [][NextSalary]_vars

(***************************************************************************)
(* The monitoring job applying for chats with auto_apply, a store method   *)
(* of apply_to_vacancy raising or not, the resume configured or not.       *)
(***************************************************************************)
\* main() with HH_RESUME_ID set or missing.
InitRecord ==
    /\ HeadHunterClientInit
    /\ access_token = "a0"
    /\ refresh_token = "r0"
    /\ HH_OAUTH_CLIENT_ID = "client_id"
    /\ HH_OAUTH_CLIENT_SECRET = "client_secret"
    /\ response_type = "Response"
    /\ StoreInit
    /\ JobBotInit({None, "resume_1"})

NextRecord ==
    \/ \E c \in ChatIds : get_or_create_user(c)
    \/ \E c \in ChatIds : toggle_auto_apply(c)
    \/ \E c \in ChatIds : monitoring_on_command(c)
    \/ check_all_users_vacancies(FALSE)
    \/ \E k \in 1..max_instances, vacancies \in OnePage :
           check_user_vacancies(k, vacancies, "none")
    \/ \E k \in 1..max_instances, details \in BOOLEAN,
          raised \in {"none", "log_application", "mark_vacancy_processed"} :
           send_monitored_vacancy(k, details, Created, raised)
    \/ \E k \in 1..max_instances : next_user(k)

SpecRecord == InitRecord /\ [][NextRecord]_vars

(***************************************************************************)
(* The monitoring job for chats without auto_apply beside their searches   *)
(* and the buttons of their cards.                                         *)
(***************************************************************************)
\* What a search returns: one vacancy, or another.
TwoPages == {<<"v1">>, <<"v2">>}

NextButton ==
    \/ \E c \in ChatIds : monitoring_on_command(c)
    \/ check_all_users_vacancies(FALSE)
    \/ \E k \in 1..max_instances, vacancies \in OnePage :
           check_user_vacancies(k, vacancies, "none")
    \/ \E k \in 1..max_instances :
           send_monitored_vacancy(k, TRUE, Created, "none")
    \/ \E k \in 1..max_instances : next_user(k)
    \/ \E c \in ChatIds, vacancies \in TwoPages :
           perform_search(c, vacancies, TRUE, Created)
    \/ \E c \in ChatIds, v \in VacancyIds, action \in {"apply", "skip"} :
           handle_vacancy_action(c, v, action, TRUE, Created)

SpecButton == InitBot /\ [][NextButton]_vars

\* The event loop with the job's check and the two interactive handlers
\* wanting the provider at any time; the provider answers with a page, a
\* created application, a server error, a rate limit or a timeout.
LoopOutcomes ==
    {ResponseWithBody(200, ItemsBody(<<"v1">>)), Created, Response(503, {}),
     Response(429, {}), Raised("Timeout")}

NextLoop ==
    \/ \E handler \in Handlers : arrive(handler)
    \/ \E handler \in Handlers : call_client(handler)
    \/ \E o \in LoopOutcomes : Attempt(o)
    \/ LoopEnd
    \/ SearchReturn
    \/ DetailsReturn
    \/ after_details
    \/ ApplyAfterFirst(NoAnswer)
    \/ \E handler \in Handlers : call_returned(handler)

SpecLoop == InitBot /\ [][NextLoop]_vars

(***************************************************************************)
(* Properties of _request_with_retry.                                      *)
(***************************************************************************)
\* The request has returned or raised.
RequestOver == req_result.kind /= "pending"

InLoop == pc \in {"loop", "loop_end"}

IsResponse(o) == o.kind = "response"

Is429(o) == IsResponse(o) /\ o.status = 429

Is5xx(o) == IsResponse(o) /\ o.status >= 500

IsTransportError(o) == o.kind \in TransportErrors

\* A 2xx, or a 4xx other than 429.
IsFinalStatus(o) == IsResponse(o) /\ o.status /= 429 /\ o.status < 500

RequestStep == (\E o \in Outcomes : Attempt(o)) \/ LoopEnd

\* C1: every request terminates and issues at most MAX_RETRIES HTTP
\* attempts: the number of attempts made never exceeds MAX_RETRIES, every
\* iteration of the loop made exactly one of them (so MAX_RETRIES minus the
\* attempts made is a variant of the loop), the loop is never stuck, and it
\* is left once MAX_RETRIES attempts are made.
C1_BoundedAttempts ==
    /\ Len(hist) <= MAX_RETRIES
    /\ InLoop => Len(hist) = attempt /\ ~RequestOver /\ ENABLED RequestStep
    /\ pc = "loop" => attempt < MAX_RETRIES
    /\ pc = "loop_end" => attempt = MAX_RETRIES
    /\ RequestOver => ~InLoop

C1_Witness == RequestOver /\ Len(hist) = MAX_RETRIES

\* C2: a response that is neither 429 nor 5xx ends the request: it is the
\* last outcome of the request, the request has returned exactly it, and
\* the only sleeps are those between the attempts before it.
C2_ReturnedImmediately ==
    \A i \in 1..Len(hist) :
        IsFinalStatus(hist[i]) =>
            /\ i = Len(hist)
            /\ ~InLoop
            /\ req_result = Returned(hist[i], i)
            /\ Len(sleeps) = i - 1

C2_Witness ==
    /\ pc = "req_out"
    /\ Len(hist) = 2
    /\ Is5xx(hist[1])
    /\ hist[2].status = 403

\* C3: 5xx, 5xx, 200 returns the response of attempt 3 after sleeps of 2 s
\* and 4 s; in any request that received no 429 the delays slept are
\* non-decreasing.
C3_BackoffNonDecreasing ==
    /\ ( /\ RequestOver
         /\ Len(hist) = 3
         /\ Is5xx(hist[1]) /\ Is5xx(hist[2])
         /\ IsResponse(hist[3]) /\ hist[3].status = 200 )
       => req_result = Returned(hist[3], 3) /\ sleeps = <<2, 4>>
    /\ (\A i \in 1..Len(hist) : ~Is429(hist[i]))
       => \A j \in 1..(Len(sleeps) - 1) : sleeps[j] <= sleeps[j + 1]

C3_Witness ==
    /\ RequestOver
    /\ Len(hist) = 3
    /\ Is5xx(hist[1]) /\ Is5xx(hist[2])
    /\ IsResponse(hist[3]) /\ hist[3].status = 200
    /\ Len(sleeps) = 2

\* C4: when every attempt is answered 5xx the request returns the 5xx
\* response of the last attempt, and sleeps only between the attempts.
C4_Final5xxReturned ==
    ( /\ Len(hist) = MAX_RETRIES
      /\ \A i \in 1..Len(hist) : Is5xx(hist[i]) )
    => /\ ~InLoop
       /\ req_result = Returned(hist[MAX_RETRIES], MAX_RETRIES)
       /\ req_result.status >= 500
       /\ Len(sleeps) = MAX_RETRIES - 1

C4_Witness ==
    /\ pc = "req_out"
    /\ Len(hist) = MAX_RETRIES
    /\ \A i \in 1..Len(hist) : Is5xx(hist[i])
    /\ req_result.kind = "response"

\* The seconds a 429 asks for: its Retry-After header when that is a
\* non-negative integer, RETRY_BACKOFF_BASE ^ attempt when it has none.
AskedDelay(o, i) ==
    IF HasHeader(o.headers, "Retry-After")
    THEN ParseInt(HeaderValue(o.headers, "Retry-After")).v
    ELSE RETRY_BACKOFF_BASE ^ i

\* A 429 whose Retry-After header, if it has one, is a non-negative integer.
WellFormed429(o) ==
    /\ Is429(o)
    /\ HasHeader(o.headers, "Retry-After") =>
           LET ra == ParseInt(HeaderValue(o.headers, "Retry-After"))
           IN  ra.ok /\ ra.v >= 0

\* Every 429 of the request so far is well formed.
WellFormedAnswers == \A i \in 1..Len(hist) : Is429(hist[i]) => WellFormed429(hist[i])

\* The index of the last outcome of the request that satisfies P, 0 if none.
LastIndex(P(_)) ==
    IF \E i \in 1..Len(hist) : P(hist[i])
    THEN CHOOSE i \in 1..Len(hist) :
             P(hist[i]) /\ \A j \in (i + 1)..Len(hist) : ~P(hist[j])
    ELSE 0

\* C5: a request that used up all its attempts (its 429 answers well
\* formed) has returned the last response it received or raised the last
\* transport error; it has not returned without a response.
C5_ExhaustedReturnsLast ==
    (RequestOver /\ Len(hist) = MAX_RETRIES /\ WellFormedAnswers) =>
        \/ /\ req_result.kind = "response"
           /\ LastIndex(IsResponse) > 0
           /\ req_result = Returned(hist[LastIndex(IsResponse)], LastIndex(IsResponse))
        \/ /\ req_result.kind = "raise"
           /\ LastIndex(IsTransportError) > 0
           /\ req_result.exc = hist[LastIndex(IsTransportError)].kind
           /\ req_result.n = LastIndex(IsTransportError)

\* C6: a timeout or connection error on an attempt before the last is
\* followed by a sleep of RETRY_BACKOFF_BASE ^ attempt seconds and by the
\* next attempt, as a 5xx is; three transport errors raise the error of the
\* third attempt, after the two sleeps between the attempts and no other.
C6_TransportErrorsRetried ==
    /\ \A i \in 1..Len(hist) :
          (IsTransportError(hist[i]) /\ i < MAX_RETRIES) =>
              /\ Len(sleeps) >= i
              /\ sleeps[i] = RETRY_BACKOFF_BASE ^ i
              /\ Len(hist) > i \/ pc = "loop"
    /\ ( /\ Len(hist) = MAX_RETRIES
         /\ \A i \in 1..Len(hist) : IsTransportError(hist[i])
         /\ pc /= "loop_end" )
       => /\ req_result.kind = "raise"
          /\ req_result.exc = hist[MAX_RETRIES].kind
          /\ req_result.n = MAX_RETRIES
          /\ sleeps = <<RETRY_BACKOFF_BASE, RETRY_BACKOFF_BASE * RETRY_BACKOFF_BASE>>

C6_Witness ==
    /\ pc = "req_out"
    /\ Len(hist) = MAX_RETRIES
    /\ \A i \in 1..Len(hist) : IsTransportError(hist[i])
    /\ hist[1].kind /= hist[MAX_RETRIES].kind
    /\ req_result.kind = "raise"

\* C7: a 429 is retried within the same budget of MAX_RETRIES attempts
\* after a sleep of the seconds it asks for, and a request that has made k
\* attempts has slept k - 1 times.
C7_OneSleepBetweenAttempts ==
    /\ Len(hist) <= MAX_RETRIES
    /\ \A i \in 1..Len(hist) :
          WellFormed429(hist[i]) =>
              Len(sleeps) >= i /\ sleeps[i] = AskedDelay(hist[i], i)
    /\ RequestOver => Len(sleeps) = Len(hist) - 1

(***************************************************************************)
(* Properties of apply_to_vacancy and refresh_access_token.                *)
(***************************************************************************)
ApplyOver == op = "apply" /\ pc = "idle"

\* C8: an apply call whose every attempt was answered 429 (each well
\* formed) returns the rate-limited outcome: not success, with the
\* rate-limit message.
C8_RateLimitedOutcome ==
    ( /\ ApplyOver
      /\ requests_made = 1
      /\ Len(hist) = MAX_RETRIES
      /\ \A i \in 1..Len(hist) : WellFormed429(hist[i]) )
    => apply_result = Result(FALSE, "rate_limit")

\* The renewal found no refresh token, or no client id or secret.
MissingCredentials ==
    \/ ~Truthy(refresh_log.before[2])
    \/ ~Truthy(HH_OAUTH_CLIENT_ID)
    \/ ~Truthy(HH_OAUTH_CLIENT_SECRET)

\* C9: a renewal that finds the refresh token, the client id or the client
\* secret missing fails without a call to the token endpoint; one answered
\* with another status than 200, or with a transport error, fails too; and
\* a renewal that fails leaves access token, refresh token and session
\* headers as it found them.
C9_RefreshFailsClosed ==
    refresh_log.called =>
        /\ MissingCredentials => ~refresh_log.ok /\ refresh_log.calls = 0
        /\ ( /\ refresh_log.calls > 0
             /\ \/ refresh_log.answer.kind /= "response"
                \/ refresh_log.answer.status /= 200 )
           => ~refresh_log.ok
        /\ ~refresh_log.ok =>
               <<access_token, refresh_token, session_headers>> = refresh_log.before

C9_Witness ==
    /\ refresh_log.called
    /\ MissingCredentials
    /\ ~refresh_log.ok
    /\ access_token = "a0"

\* C10: whenever the client holds an access token, the session's
\* Authorization header is 'Bearer ' followed by that token.
C10_HeaderMatchesToken ==
    Truthy(access_token) =>
        /\ HasHeader(session_headers, "Authorization")
        /\ \A h \in session_headers :
              h[1] = "Authorization" => h[2] = "Bearer " \o access_token

C10_Witness ==
    /\ refresh_log.called
    /\ refresh_log.ok
    /\ refresh_log.before[1] = "a0"
    /\ access_token = "a1"

(***************************************************************************)
(* Claims about apply_to_vacancy                                           *)
(***************************************************************************)
\* The request just answered is the retry apply_to_vacancy made after a
\* renewal.
RetryOver == ApplyOver /\ requests_made = 2

\* The request returned a response with one of the statuses in S.
ReturnedStatus(S) == req_result.kind = "response" /\ req_result.status \in S

\* C11: one apply call renews the token at most once and issues the apply
\* request at most twice; a 401 on the retry ends the call with the
\* expired-credential outcome, with no further renewal or request.
C11_OneRenewalOneRetry ==
    op = "apply" =>
        /\ refresh_log.count <= 1
        /\ requests_made <= 2
        /\ requests_made = 2 => refresh_log.count = 1 /\ refresh_log.ok
        /\ ( /\ requests_made = 2
             /\ pc \in {"req_out", "idle"}
             /\ ReturnedStatus({401}) )
           => ( /\ pc = "req_out" => ENABLED ApplyAfterRetry
               /\ pc = "idle" => apply_result = Result(FALSE, "token_expired") )

C11_Witness ==
    /\ RetryOver
    /\ ReturnedStatus({401})
    /\ refresh_log.count = 1
    /\ apply_result = Result(FALSE, "token_expired")

\* The one apply request of the call was answered 401.
EndedOn401 == ApplyOver /\ requests_made = 1 /\ ReturnedStatus({401})

\* C12: an apply whose request is answered 401 renews the token, and when
\* the renewal succeeds and the retry is answered 201 it returns success
\* with the Location of that 201, having issued the apply request twice
\* and renewed once.
C12_RenewedRetrySucceeds ==
    /\ EndedOn401 => refresh_log.called
    /\ ( /\ ApplyOver
         /\ refresh_log.called /\ refresh_log.ok
         /\ ReturnedStatus({201}) )
       => /\ apply_result.success
          /\ apply_result.message = "sent"
          /\ apply_result.has_url
          /\ apply_result.negotiation_url = LocationOf(LastOutcome)
          /\ apply_result.negotiation_url = LOCATION
          /\ requests_made = 2
          /\ refresh_log.count = 1

\* The renewal apply_to_vacancy made cannot have succeeded: a credential
\* was missing, or the token endpoint did not answer 200 with a JSON
\* object.
RenewalFailed ==
    /\ refresh_log.called
    /\ \/ MissingCredentials
       \/ refresh_log.answer.kind /= "response"
       \/ refresh_log.answer.status /= 200
       \/ ~refresh_log.answer.json

\* C13: an apply answered 401 whose renewal fails returns the
\* expired-credential outcome; after the 401 it makes at most the one call
\* of the renewal and does not issue the apply request again.  (An apply
\* that ends on its first 401 is one whose renewal failed.)
C13_FailedRenewalNoRetry ==
    /\ EndedOn401 =>
           /\ RenewalFailed
           /\ apply_result = Result(FALSE, "token_expired")
    /\ (op = "apply" /\ RenewalFailed) =>
           /\ ApplyOver
           /\ apply_result = Result(FALSE, "token_expired")
           /\ requests_made = 1
           /\ ReturnedStatus({401})
           /\ refresh_log.count = 1
           /\ refresh_log.calls <= 1
           /\ refresh_log.calls + (requests_made - 1) <= 2

\* C14: when the retry after a successful renewal fails (another status
\* than 200, 201 and 409, no response, or an exception raised by the
\* request; every 429 well formed), apply returns the expired-credential
\* outcome.
C14_FailedRetryIsExpired ==
    ( /\ RetryOver
      /\ WellFormedAnswers
      /\ ~ReturnedStatus({200, 201, 409}) )
    => apply_result = Result(FALSE, "token_expired")

\* C15: apply always comes to an end with an outcome, whatever the
\* provider answered, and the outcome is success exactly when the
\* response the last apply request returned is 200, 201 or 409.
C15_TotalAndSuccessIff ==
    op = "apply" =>
        /\ pc = "req_out" =>
               \/ \E t \in TokenAnswers : ENABLED ApplyAfterFirst(t)
               \/ ENABLED ApplyAfterRetry
        /\ pc = "idle" =>
               /\ apply_result.message /= "pending"
               /\ apply_result.success <=>
                      (requests_made >= 1 /\ ReturnedStatus({200, 201, 409}))

\* None or the empty string: a credential that is not configured.
Absent(v) == v = None \/ v = ""

\* C16: an apply call that finds no access token, or is given no resume
\* id, returns a failed configuration outcome in that one step: no HTTP
\* request, no renewal, the client's tokens untouched.
C16_ConfigErrorWithoutHTTP ==
    [][ ( /\ Idle
          /\ op' = "apply"
          /\ Absent(access_token) \/ Absent(resume_id') )
        => ( /\ pc' = "idle"
             /\ ~apply_result'.success
             /\ apply_result'.message \in {"no_token", "no_resume"}
             /\ requests_made' = 0
             /\ hist' = <<>>
             /\ ~refresh_log'.called
             /\ UNCHANGED tokenVars ) ]_vars

C16_Witness ==
    /\ ApplyOver
    /\ access_token = ""
    /\ resume_id = "resume_1"
    /\ apply_result = Result(FALSE, "no_token")
    /\ requests_made = 0

(***************************************************************************)
(* Claims about search_vacancies and get_vacancy_details                   *)
(***************************************************************************)
\* The request ended without a 2xx response: another status, no response,
\* or an exception.
NoSuccessResponse == ~ReturnedStatus(200..299)

\* C17: search_vacancies and get_vacancy_details always return and never
\* raise; when the request ends without a 2xx response (another final
\* status, no response, a transport failure left after the retries) search
\* returns the empty list and get_vacancy_details returns None; on a 200
\* with items, search returns those items, all of them and in their order.
C17_ReadsNeverRaise ==
    /\ op = "search" =>
           /\ pc = "req_out" => ENABLED SearchReturn
           /\ pc = "idle" =>
                  /\ search_result.kind = "list"
                  /\ NoSuccessResponse => search_result.items = <<>>
                  /\ (ReturnedStatus({200}) /\ LastOutcome.body.has_items)
                         => search_result.items = LastOutcome.body.items
    /\ op = "details" =>
           /\ pc = "req_out" => ENABLED DetailsReturn
           /\ pc = "idle" =>
                  /\ details_result.kind \in {"dict", "None"}
                  /\ NoSuccessResponse => details_result.kind = "None"

C17_Witness ==
    /\ op = "search" /\ pc = "idle"
    /\ req_result.kind = "raise"
    /\ Len(hist) = MAX_RETRIES
    /\ search_result = [kind |-> "list", items |-> <<>>]

(***************************************************************************)
(* Claims about the store                                                  *)
(***************************************************************************)
Pairs == ChatIds \X VacancyIds

\* C18: is_vacancy_sent(c, v) is true exactly when mark_vacancy_sent has
\* been called with that pair: false until then, true from then on, and
\* untouched by a mark of any other pair; a pair marked again still has
\* one row.
C18_SentExactlyWhenMarked ==
    /\ \A pair \in Pairs :
           /\ is_vacancy_sent(pair[1], pair[2]) <=> pair \in sent_calls
           /\ CopiesIn(pair, sent_vacancies) <= 1
    /\ db_result.method = "is_vacancy_sent" =>
           /\ ~db_result.raised
           /\ db_result.value.bool <=> db_result.args \in sent_calls

C18_Witness ==
    /\ db_result.method = "is_vacancy_sent"
    /\ db_result.value.bool
    /\ is_vacancy_sent(db_result.args[1], db_result.args[2])
    /\ \E pair \in Pairs : ~is_vacancy_sent(pair[1], pair[2])

\* C19: a call of mark_vacancy_sent changes is_vacancy_processed for no
\* pair, and a call of mark_vacancy_processed changes is_vacancy_sent for
\* no pair.
C19_SentAndProcessedIndependent ==
    [][ /\ db_result'.method = "mark_vacancy_sent" =>
              \A pair \in Pairs :
                  is_vacancy_processed(pair[1], pair[2])'
                      <=> is_vacancy_processed(pair[1], pair[2])
        /\ db_result'.method = "mark_vacancy_processed" =>
              \A pair \in Pairs :
                  is_vacancy_sent(pair[1], pair[2])'
                      <=> is_vacancy_sent(pair[1], pair[2]) ]_vars

C19_Witness ==
    /\ db_result.method = "mark_vacancy_processed"
    /\ is_vacancy_processed(db_result.args[1], db_result.args[2])
    /\ ~is_vacancy_sent(db_result.args[1], db_result.args[2])
    /\ \E pair \in Pairs :
           /\ is_vacancy_sent(pair[1], pair[2])
           /\ ~is_vacancy_processed(pair[1], pair[2])

\* C20: get_preferences for a chat with no preferences row returns the
\* default dict (role_domain 'IT', keywords [], salary_min 0, auto_apply
\* false) without raising and without creating a row; for a chat whose row
\* was created and never updated it returns the same value under every
\* key of that dict.
C20_DefaultPreferences ==
    [][ \A c \in ChatIds :
          (db_result'.method = "get_preferences" /\ db_result'.args = <<c>>)
          => /\ ~db_result'.raised
             /\ c \notin DOMAIN preferences =>
                    /\ db_result'.value.dict = DefaultPreferences(c)
                    /\ db_result'.value.dict.role_domain = "IT"
                    /\ db_result'.value.dict.keywords = <<>>
                    /\ db_result'.value.dict.salary_min = 0
                    /\ db_result'.value.dict.auto_apply = PyFalse
                    /\ UNCHANGED <<users, preferences>>
             /\ c \in fresh =>
                    \A key \in DOMAIN DefaultPreferences(c) :
                        db_result'.value.dict[key] = DefaultPreferences(c)[key] ]_vars

C20_Witness ==
    /\ db_result.method = "get_preferences"
    /\ db_result.args[1] \notin DOMAIN preferences
    /\ db_result.args[1] \notin users
    /\ db_result.value.dict = DefaultPreferences(db_result.args[1])
    /\ fresh /= {}

\* The value a keyword argument was given: the list, for keywords.
Supplied(kwargs, key) ==
    IF key = "keywords" THEN kwargs[key].list ELSE kwargs[key]

\* The keyword arguments give every list as a list (keywords not as a str).
ListsAsLists(kwargs) ==
    "keywords" \in DOMAIN kwargs => kwargs.keywords.str = <<>>

\* C21: update_preferences for a chat with a preferences row does not
\* raise; afterwards get_preferences returns the supplied value under
\* every key named in the call (the keywords and roles lists included) and
\* the previous value under every other key but updated_at; and the row
\* of no other chat changes.
C21_UpdateMergesSupplied ==
    [][ \A c \in ChatIds :
          ( /\ db_result'.method = "update_preferences"
            /\ db_result'.args[1] = c
            /\ ListsAsLists(db_result'.args[2].kwargs)
            /\ c \in DOMAIN preferences )
          => LET kwargs == db_result'.args[2].kwargs
                 before == GetPreferencesValue(c)
                 after == PreferencesOf(preferences', c)
             IN  /\ ~db_result'.raised
                 /\ \A key \in DOMAIN kwargs :
                        /\ key \in DOMAIN after
                        /\ after[key] = Supplied(kwargs, key)
                 /\ \A key \in DOMAIN before \ (DOMAIN kwargs \cup {"updated_at"}) :
                        after[key] = before[key]
                 /\ \A other \in ChatIds \ {c} :
                        /\ other \in DOMAIN preferences'
                               <=> other \in DOMAIN preferences
                        /\ other \in DOMAIN preferences =>
                               preferences'[other] = preferences[other] ]_vars

\* rows is the beginning of longer: every record of rows is in longer, at
\* its place and as it was.
IsPrefix(rows, longer) ==
    /\ Len(rows) <= Len(longer)
    /\ \A i \in 1..Len(rows) : longer[i] = rows[i]

\* C22: the table of applications only grows at its end: every step keeps
\* every record as it was, a log_application call adds one record, for its
\* chat, and the count of a chat's applications never decreases.
C22_LogAppendOnly ==
    [][ /\ IsPrefix(applications, applications')
        /\ \A c \in ChatIds :
               Len(ApplicationsOf(applications', c))
                   >= Len(ApplicationsOf(applications, c))
        /\ (db_result'.method = "log_application" /\ vars' /= vars) =>
               /\ Len(applications') = Len(applications) + 1
               /\ applications'[Len(applications')].chat_id = db_result'.args[1]
               /\ \A c \in ChatIds \ {db_result'.args[1]} :
                      ApplicationsOf(applications', c)
                          = ApplicationsOf(applications, c)
        /\ db_result'.method = "get_applications_count" =>
               db_result'.value.int
                   = Len(ApplicationsOf(applications', db_result'.args[1])) ]_vars

C22_Witness ==
    /\ db_result.method = "log_application"
    /\ Len(applications) = 2
    /\ applications[1].chat_id = applications[2].chat_id
    /\ applications[1].vacancy_id = applications[2].vacancy_id
    /\ applications[1].status /= applications[2].status
(***************************************************************************)
(* The monitoring job.                                                     *)
(***************************************************************************)
\* The members of a sequence.
Range(seq) == {seq[n] : n \in DOMAIN seq}

\* The call of check_user_vacancies of the instance has returned, and not
\* from its except clause.
Returned_(cycle) == cycle.pc = "sleep" /\ ~cycle.failed

Dispatches(k, chat_id, vacancy_id) ==
    /\ k \in DOMAIN cycles
    /\ cycles[k].pc = "dispatch"
    /\ k \in DOMAIN cycles'
    /\ cycles'[k].dispatches /= cycles[k].dispatches
    /\ chat_id = ChatOf(cycles[k])
    /\ vacancy_id = cycles[k].new_vacancies[cycles[k].j]

\* C24: whatever the cycles and the searches, the monitoring job
\* dispatches a vacancy to a chat at most once: no step dispatches a pair
\* that was dispatched before.
C24_DispatchedAtMostOnce ==
    [][\A k \in 1..max_instances, chat_id \in ChatIds, vacancy_id \in PostingIds :
          Dispatches(k, chat_id, vacancy_id)
              => <<chat_id, vacancy_id>> \notin dispatched]_vars

\* C25: once an apply request was made for a pair of chat and vacancy, and
\* the pair is in processed_vacancies, no cycle of the job and no handler
\* makes another apply request for the pair.
C25_NoDuplicateApplication ==
    [][\A chat_id \in ChatIds, vacancy_id \in PostingIds :
          CopiesIn(<<chat_id, vacancy_id>>, apply_requests')
                > CopiesIn(<<chat_id, vacancy_id>>, apply_requests)
              => ~is_vacancy_processed(chat_id, vacancy_id)]_vars

\* An apply request is made for the pair in a step.
Applies(chat_id, vacancy_id) ==
    CopiesIn(<<chat_id, vacancy_id>>, apply_requests')
        > CopiesIn(<<chat_id, vacancy_id>>, apply_requests)

C27_FailureDoesNotAbort ==
    [][\A k \in 1..max_instances :
          k \in DOMAIN cycles /\ cycles[k].pc = "sleep" /\ cycles' /= cycles
              => LET cycle == cycles[k]
                 IN  IF cycle.i < Len(cycle.monitoring_users)
                     THEN /\ Len(cycles') = Len(cycles)
                          /\ cycles'[k].monitoring_users = cycle.monitoring_users
                          /\ cycles'[k].i = cycle.i + 1
                          /\ cycles'[k].pc = "check"
                     ELSE /\ Len(cycles') = Len(cycles) - 1
                          /\ cycle.checked = cycle.monitoring_users]_vars

\* The call for the first chat failed, and the one for the second chat
\* has dispatched and returned.
C27_Witness ==
    \E k \in DOMAIN cycles :
        /\ cycles[k].failures = <<cycles[k].monitoring_users[1]>>
        /\ cycles[k].i = 2
        /\ Returned_(cycles[k])
        /\ cycles[k].dispatches /= <<>>

\* C28: cycles do not overlap, and within a cycle the chats are taken one
\* after another: at most one instance of the job is running, and the
\* chats check_user_vacancies was called for are those before the position
\* of the loop, in the order of the list, with the chat at the position
\* once its call has begun.
C28_NoOverlap ==
    /\ Len(cycles) <= 1
    /\ \A k \in DOMAIN cycles :
           cycles[k].checked =
               SubSeq(cycles[k].monitoring_users, 1,
                      IF cycles[k].pc = "check" THEN cycles[k].i - 1
                      ELSE cycles[k].i)

\* An instance is at its second chat, in the loop over the new vacancies.
C28_Witness ==
    \E k \in DOMAIN cycles :
        /\ cycles[k].i = 2
        /\ cycles[k].pc = "dispatch"
        /\ cycles[k].dispatches /= <<>>
        /\ ~ENABLED check_all_users_vacancies(FALSE)

\* The chats whose flag is set.
Enabled_ == {chat_id \in ChatIds : monitoring_state[chat_id].monitoring_enabled}

\* C29: the list a cycle loads holds each chat whose flag is set at that
\* moment once, and no other chat; no command of a chat changes the list of
\* a running cycle; and the cycle ends only after check_user_vacancies has
\* been called for the chats of its list, in its order.
C29_CycleTakesTheEnabled ==
    [][/\ Len(cycles') > Len(cycles)
           => LET loaded == cycles'[Len(cycles')].monitoring_users
              IN  /\ Range(loaded) = Enabled_
                  /\ Len(loaded) = Cardinality(Enabled_)
       /\ \A k \in DOMAIN cycles :
              IF Len(cycles') >= Len(cycles)
              THEN cycles'[k].monitoring_users = cycles[k].monitoring_users
              ELSE cycles[k].checked = cycles[k].monitoring_users]_vars

\* A chat switched monitoring off after the cycle had loaded its list, and
\* check_user_vacancies has run for it in that cycle all the same, while a
\* chat that switched it on since is not in the list.
C29_Witness ==
    \E k \in DOMAIN cycles :
        /\ cycles[k].pc = "sleep"
        /\ ChatOf(cycles[k]) \notin Enabled_
        /\ cycles[k].vacancies /= <<>>
        /\ Enabled_ \ Range(cycles[k].monitoring_users) /= {}

\* C30: any two calls of the provider that follow each other, from the job
\* or from a handler, are at least the interval 1/QPS apart.
C30_CallsAreSpaced == provider.min_gap >= MinInterval

(***************************************************************************)
(* Renewal on 401 in every authorized call, the renewal token, and what a *)
(* request raises.                                                         *)
(***************************************************************************)
\* The public methods that send the Authorization header.
AuthorizedCalls == {"search", "details", "apply"}

\* C35: an authorized call (search_vacancies, get_vacancy_details or
\* apply_to_vacancy) whose request is answered 401 renews the token once
\* and, when the renewal succeeds, issues the request once more: a call
\* that ended after one request answered 401 has made one renewal, and that
\* renewal failed.
C35_Every401Renews ==
    ( /\ op \in AuthorizedCalls
      /\ pc = "idle"
      /\ requests_made = 1
      /\ ReturnedStatus({401}) )
    => /\ refresh_log.called
       /\ refresh_log.count = 1
       /\ ~refresh_log.ok

\* C36: after a renewal that succeeded the client holds a non-empty access
\* token and a non-empty refresh token, and when the token endpoint's 200
\* answer carries no refresh token the one held before the renewal is kept.
C36_RenewalKeepsRefreshToken ==
    (refresh_log.called /\ refresh_log.ok) =>
        /\ Truthy(access_token)
        /\ Truthy(refresh_token)
        /\ refresh_log.answer.refresh_token = None =>
               refresh_token = refresh_log.before[2]

\* C38: a request that raised a transport error raised the one of its last
\* attempt: the last outcome of the request is that error, and no attempt
\* after the one whose exception is raised received a response.
C38_RaisedByFinalAttempt ==
    ( /\ RequestOver
      /\ req_result.kind = "raise"
      /\ req_result.exc \in TransportErrors )
    => /\ IsTransportError(hist[Len(hist)])
       /\ req_result.exc = hist[Len(hist)].kind
       /\ req_result.n = Len(hist)

(***************************************************************************)
(* The table of sent vacancies and the notifications.                      *)
(***************************************************************************)
\* C33: a pair of chat and vacancy is in the table of sent vacancies only
\* when the vacancy was delivered to the chat (the send_message of its
\* notification returned) or an apply request was made for it: a vacancy
\* whose send_message raised is not marked as sent.
C33_SentOnlyAfterDelivered ==
    \A chat_id \in ChatIds, vacancy_id \in PostingIds :
        is_vacancy_sent(chat_id, vacancy_id) =>
            \/ <<chat_id, vacancy_id>> \in delivered
            \/ BagIn(<<chat_id, vacancy_id>>, apply_requests)

(***************************************************************************)
(* The preferences a chat sets.                                            *)
(***************************************************************************)
\* C34: in every state the salary_min of every preferences row, and the one
\* get_preferences returns for every chat, is an integer that is not
\* negative, whatever texts the chats sent.
C34_SalaryNonNegative ==
    /\ \A c \in DOMAIN preferences : preferences[c].salary_min \in Nat
    /\ \A c \in ChatIds : GetPreferencesValue(c).salary_min \in Nat

\* C37: for every chat, with a preferences row or without one, when
\* update_preferences returns without raising (its lists given as lists),
\* get_preferences then returns the supplied value under every key named
\* in the call.
C37_UpdateThenGet ==
    [][ \A c \in ChatIds :
          ( /\ db_result'.method = "update_preferences"
            /\ db_result'.args[1] = c
            /\ ListsAsLists(db_result'.args[2].kwargs)
            /\ ~db_result'.raised )
          => LET kwargs == db_result'.args[2].kwargs
                 after == PreferencesOf(preferences', c)
             IN  \A key \in DOMAIN kwargs :
                     /\ key \in DOMAIN after
                     /\ after[key] = Supplied(kwargs, key) ]_vars

(***************************************************************************)
(* The records of applications, and the buttons of the cards.              *)
(***************************************************************************)
\* C39: a row is appended to applications exactly when apply_to_vacancy
\* made the apply request (one row for each request, none when the
\* configuration is missing or get_vacancy_details returned nothing), and
\* when apply_to_vacancy has returned the pair of every row of
\* applications is in processed_vacancies, whatever the status of the row.
C39_RecordExactlyWhenApplied ==
    [][ /\ Len(applications') - Len(applications) =
               BagCardinality(apply_requests') - BagCardinality(apply_requests)
        /\ \A n \in DOMAIN applications' :
               BagIn(<<applications'[n].chat_id, applications'[n].vacancy_id>>,
                     processed_vacancies') ]_vars

\* C40: the apply button of a card the monitoring job dispatched finds its
\* vacancy: while the card shows its buttons the vacancy is among
\* self.current_vacancies of the chat, whatever searches and dispatches
\* came after the card.
C40_ButtonFindsVacancy ==
    \A pair \in buttons \cap dispatched : pair \in current_vacancies

\* C31: no two calls of the provider are in flight at the same time, however
\* the job's check and the interactive handlers interleave: at most one
\* handler has a call that has not ended, and it is the one holding the
\* thread of the event loop.
C31_OneCallInFlight ==
    /\ Cardinality(in_flight) <= 1
    /\ in_flight \subseteq {running}

\* A search of a chat is between two attempts of its request while the job's
\* check waits for the thread.
C31_Witness ==
    /\ in_flight = {"perform_search"}
    /\ "check_user_vacancies" \in pending
    /\ pc = "loop"
    /\ Len(hist) >= 1

\* C32: while a request of the monitoring job waits out a backoff delay, an
\* interactive handler that is waiting can run before the next attempt.
C32_PollYieldsBetweenRetries ==
    \A handler \in InteractiveHandlers :
        ( /\ in_flight = {"check_user_vacancies"}
          /\ pc = "loop"
          /\ Len(sleeps) >= 1
          /\ handler \in pending )
            => ENABLED call_client(handler)

====
